---------------------------- MODULE Spec2Model ----------------------------
(***************************************************************************)
(* A model of Pegasus/DAX3.py: the entity model of an abstract workflow    *)
(* (ADAG, Job/DAX/DAG, File/Executable, Transformation, Use, Dependency),  *)
(* the encoder ADAG.writeXML and the decoder DAXHandler driven by SAX      *)
(* events.                                                                 *)
(*                                                                         *)
(* Python objects live in heaps (one sequence per class); a reference is   *)
(* the index of the object in its heap and 0 is the null reference.        *)
(* Python values of varying type are tagged tuples (None, str, bool, int). *)
(* A written document is the sequence of SAX events its text tokenizes to; *)
(* character data is a sequence of one-character strings.                  *)
(***************************************************************************)
EXTENDS Integers, Sequences, FiniteSets, TLC

VARIABLES
    files,      \* heap of CatalogType objects (File, Executable)
    nodes,      \* heap of AbstractJob objects (Job, DAX, DAG)
    xforms,     \* heap of Transformation objects
    profiles,   \* heap of Profile objects
    metadata,   \* heap of Metadata objects
    pfns,       \* heap of PFN objects
    deps,       \* heap of Dependency objects
    adags,      \* heap of ADAG objects
    handler,    \* the DAXHandler of the parse in progress
    input,      \* SAX events the tokenizer has still to deliver
    out,        \* per ADAG, the document written since the last other call
    result,     \* what parseString returned (an ADAG reference, 0: nothing)
    err,        \* the exception the last call raised ("" when it returned)
    admitted    \* per ADAG, the log of its addJob calls: was the id unset?

vars == <<files, nodes, xforms, profiles, metadata, pfns, deps, adags,
          handler, input, out, result, err, admitted>>

-----------------------------------------------------------------------------
(* Python values *)

None == <<"None">>
PyStr(s) == <<"str", s>>
PyBool(b) == <<"bool", b>>
PyInt(n) == <<"int", n>>
True == PyBool(TRUE)
False == PyBool(FALSE)

IsInt(v) == v[1] = "int"
IsBool(v) == v[1] = "bool"

\* bool(v): the truth value Python gives v in `if v` and `v or w`
Truthy(v) ==
    CASE v[1] = "None" -> FALSE
      [] v[1] = "bool" -> v[2]
      [] v[1] = "str"  -> v[2] # ""
      [] v[1] = "int"  -> v[2] # 0

\* v or w
Or(v, w) == IF Truthy(v) THEN v ELSE w

\* unicode(v), the text "%s" % v writes
Unicode(v) ==
    CASE v[1] = "None" -> "None"
      [] v[1] = "bool" -> IF v[2] THEN "True" ELSE "False"
      [] v[1] = "str"  -> v[2]
      [] v[1] = "int"  -> ToString(v[2])

\* s.lower() on the strings the model draws (all lower case but True/False)
Lower(s) ==
    CASE s = "True"  -> "true"
      [] s = "False" -> "false"
      [] OTHER       -> s

\* "%07d" % n
ZeroPad7(n) ==
    LET s == ToString(n)
    IN  IF Len(s) >= 7 THEN s ELSE SubSeq("0000000", 1, 7 - Len(s)) \o s

NoErr == ""
NoDocs == [g \in {} |-> <<>>]

-----------------------------------------------------------------------------
(* Class-level constants *)

Link_INPUT == "input"
Link_OUTPUT == "output"

-----------------------------------------------------------------------------
(* The world: every heap and the handler, passed through the operators     *)
(* that model methods; an operator returns the world after the call.  A    *)
(* call starts with no exception pending; the caller keeps the documents   *)
(* written (one sink per graph) until it calls anything but writeXML.      *)

World ==
    [files |-> files, nodes |-> nodes, xforms |-> xforms,
     profiles |-> profiles, metadata |-> metadata, pfns |-> pfns,
     deps |-> deps, adags |-> adags, handler |-> handler,
     admitted |-> admitted, out |-> NoDocs, err |-> NoErr]

\* raise exc: the call ends here; what it assigned before stays assigned
Raise(W, exc) == IF W.err # NoErr THEN W ELSE [W EXCEPT !.err = exc]

Failed(W) == W.err # NoErr

\* d[k] = v on a dict modelled as a function
DictPut(d, k, v) == [x \in DOMAIN d \cup {k} |-> IF x = k THEN v ELSE d[x]]
EmptyDict == [x \in {} |-> 0]

-----------------------------------------------------------------------------
(* Entity model: catalog entries, profiles, metadata, physical locations *)

\* a reference to an object of class cls, as a Python value
Obj(cls, ref) == <<cls, ref>>
\* unicode text (character content): a sequence of one-character strings
Text(t) == <<"text", t>>
IsObj(v, cls) == v[1] = cls

NoPlatform ==
    [arch |-> None, os |-> None, osrelease |-> None, osversion |-> None,
     glibc |-> None]

CatalogType_init(W, cls, name, link, register, transfer, optional, namespace, version, x) ==
    IF Failed(W) THEN W
    ELSE IF name = None THEN Raise(W, "ValueError")
    ELSE [W EXCEPT !.files = Append(@,
            [cls |-> cls, name |-> name, link |-> link,
             register |-> register, transfer |-> transfer,
             optional |-> optional,
             profiles |-> <<>>, metadata |-> <<>>, pfns |-> <<>>,
             namespace |-> namespace, version |-> version,
             arch |-> x.arch, os |-> x.os, osrelease |-> x.osrelease,
             osversion |-> x.osversion, glibc |-> x.glibc])]

\* File(name, link=None, register=False, transfer=False, optional=None)
File_init(W, name, link, register, transfer, optional) ==
    CatalogType_init(W, "File", name, link, register, transfer, optional,
                     None, None, NoPlatform)

\* Executable(name, link=Link.INPUT, register=False, transfer=True,
\*            optional=None, namespace=None, version=None, arch=None, ...)
Executable_init(W, name, link, register, transfer, optional, namespace, version, x) ==
    CatalogType_init(W, "Executable", name, link, register, transfer,
                     optional, namespace, version, x)

\* the object the constructor that produced W has just built
NewFile(W) == Len(W.files)

Profile_init(W, namespace, key, value) ==
    IF Failed(W) THEN W
    ELSE [W EXCEPT !.profiles = Append(@,
            [namespace |-> namespace, key |-> key, value |-> value])]
NewProfile(W) == Len(W.profiles)

Metadata_init(W, key, type, value) ==
    IF Failed(W) THEN W
    ELSE [W EXCEPT !.metadata = Append(@,
            [key |-> key, type |-> type, value |-> value])]
NewMetadata(W) == Len(W.metadata)

\* PFN(url, site="local")
PFN_init(W, url, site) ==
    IF Failed(W) THEN W
    ELSE [W EXCEPT !.pfns = Append(@,
            [url |-> url, site |-> site, profiles |-> <<>>])]
NewPFN(W) == Len(W.pfns)

\* Profile(*t), Metadata(*t), PFN(*t) on a tuple t: the arity must fit
IsTuple(v) == v[1] = "tuple"
Tuple(t) == <<"tuple", t>>

\* CatalogType.addProfile(profile): a Profile, or a tuple made into one
CatalogType_addProfile(W, f, profile) ==
    IF Failed(W) THEN W
    ELSE IF IsObj(profile, "Profile")
    THEN [W EXCEPT !.files[f].profiles = Append(@, profile)]
    ELSE IF IsTuple(profile)
    THEN IF Len(profile[2]) # 3 THEN Raise(W, "TypeError")
         ELSE LET W1 == Profile_init(W, profile[2][1], profile[2][2],
                                     profile[2][3])
              IN  [W1 EXCEPT !.files[f].profiles =
                       Append(@, Obj("Profile", NewProfile(W1)))]
    ELSE Raise(W, "Exception")

CatalogType_addMetadata(W, f, meta) ==
    IF Failed(W) THEN W
    ELSE IF IsObj(meta, "Metadata")
    THEN [W EXCEPT !.files[f].metadata = Append(@, meta)]
    ELSE IF IsTuple(meta)
    THEN IF Len(meta[2]) # 3 THEN Raise(W, "TypeError")
         ELSE LET W1 == Metadata_init(W, meta[2][1], meta[2][2], meta[2][3])
              IN  [W1 EXCEPT !.files[f].metadata =
                       Append(@, Obj("Metadata", NewMetadata(W1)))]
    ELSE Raise(W, "Exception")

CatalogType_addPFN(W, f, pfn) ==
    IF Failed(W) THEN W
    ELSE IF IsObj(pfn, "PFN")
    THEN [W EXCEPT !.files[f].pfns = Append(@, pfn)]
    ELSE IF IsTuple(pfn)
    THEN IF Len(pfn[2]) \notin {1, 2} THEN Raise(W, "TypeError")
         ELSE LET W1 == PFN_init(W, pfn[2][1],
                            IF Len(pfn[2]) = 2 THEN pfn[2][2]
                            ELSE PyStr("local"))
              IN  [W1 EXCEPT !.files[f].pfns =
                       Append(@, Obj("PFN", NewPFN(W1)))]
    ELSE Raise(W, "Exception")

\* PFN.addProfile(*profile): extends the list with whatever it is given
PFN_addProfile(W, p, items) ==
    IF Failed(W) THEN W
    ELSE [W EXCEPT !.pfns[p].profiles = @ \o items]

-----------------------------------------------------------------------------
(* Use and Transformation *)

Use_init(file, link, register, transfer, optional) ==
    [file |-> file, link |-> link, optional |-> optional,
     register |-> register, transfer |-> transfer]

\* Transformation.uses(file, link=None, register=None, transfer=None,
\*                     optional=None); Use() raises when file is None
Transformation_uses(W, t, file, link, register, transfer, optional) ==
    IF Failed(W) THEN W
    ELSE IF file = 0 THEN Raise(W, "ValueError")
    ELSE [W EXCEPT !.xforms[t].used_files =
              Append(@, Use_init(file, link, register, transfer, optional))]

NewXform(W) == Len(W.xforms)

\* Transformation(name, namespace=None, version=None); name is a string or
\* an Executable
\* a constructor that copies the executable's identity and adds no Use
Transformation_init_bare(W, name, namespace, version) ==
    IF Failed(W) THEN W
    ELSE
    LET isExe == IsObj(name, "Executable")
        e  == IF isExe THEN W.files[name[2]] ELSE <<>>
        W1 == [W EXCEPT !.xforms = Append(@,
                 [name |-> IF isExe THEN e.name ELSE name,
                  namespace |-> IF isExe THEN e.namespace ELSE None,
                  version |-> IF isExe THEN e.version ELSE None,
                  used_files |-> <<>>])]
        t  == NewXform(W1)
        W2 == W1
        W3 == IF Truthy(namespace)
              THEN [W2 EXCEPT !.xforms[t].namespace = namespace] ELSE W2
    IN  IF Truthy(version)
        THEN [W3 EXCEPT !.xforms[t].version = version] ELSE W3

Transformation_init(W, name, namespace, version) ==
    IF Failed(W) THEN W
    ELSE
    LET isExe == IsObj(name, "Executable")
        e  == IF isExe THEN W.files[name[2]] ELSE <<>>
        W1 == [W EXCEPT !.xforms = Append(@,
                 [name |-> IF isExe THEN e.name ELSE name,
                  namespace |-> IF isExe THEN e.namespace ELSE None,
                  version |-> IF isExe THEN e.version ELSE None,
                  used_files |-> <<>>])]
        t  == NewXform(W1)
        W2 == IF isExe
              THEN Transformation_uses(W1, t, name[2], PyStr(Link_INPUT),
                                       False, True, None)
              ELSE W1
        W3 == IF Truthy(namespace)
              THEN [W2 EXCEPT !.xforms[t].namespace = namespace] ELSE W2
    IN  IF Truthy(version)
        THEN [W3 EXCEPT !.xforms[t].version = version] ELSE W3

-----------------------------------------------------------------------------
(* Nodes: AbstractJob, Job, DAX, DAG *)

AbstractJob_init(W, cls, name, id, node_label, namespace, version) ==
    IF Failed(W) THEN W
    ELSE IF name = None THEN Raise(W, "ValueError")
    ELSE [W EXCEPT !.nodes = Append(@,
            [cls |-> cls, name |-> name, id |-> id,
             node_label |-> node_label,
             namespace |-> namespace, version |-> version,
             arguments |-> <<>>, profiles |-> <<>>, used_files |-> <<>>,
             notifications |-> <<>>,
             stdout |-> 0, stderr |-> 0, stdin |-> 0])]

NewNode(W) == Len(W.nodes)

AbstractJob_addArguments(W, n, arguments) ==
    IF Failed(W) THEN W
    ELSE [W EXCEPT !.nodes[n].arguments = @ \o arguments]

AbstractJob_addProfile(W, n, profile) ==
    IF Failed(W) THEN W
    ELSE IF IsObj(profile, "Profile")
    THEN [W EXCEPT !.nodes[n].profiles = Append(@, profile)]
    ELSE IF IsTuple(profile)
    THEN IF Len(profile[2]) # 3 THEN Raise(W, "TypeError")
         ELSE LET W1 == Profile_init(W, profile[2][1], profile[2][2],
                                     profile[2][3])
              IN  [W1 EXCEPT !.nodes[n].profiles =
                       Append(@, Obj("Profile", NewProfile(W1)))]
    ELSE Raise(W, "Exception")

\* a uses that stores a given link in the catalog entry as well
AbstractJob_uses_writing(W, n, file, link, register, transfer, optional) ==
    IF Failed(W) THEN W
    ELSE IF file = 0 THEN Raise(W, "ValueError")
    ELSE [W EXCEPT !.nodes[n].used_files =
              Append(@, Use_init(file, link, register, transfer, optional)),
                   !.files[file].link = IF link = None THEN @ ELSE link]

\* AbstractJob.uses(file, link=None, register=None, transfer=None,
\*                  optional=None); addUses is its alias
AbstractJob_uses(W, n, file, link, register, transfer, optional) ==
    IF Failed(W) THEN W
    ELSE IF file = 0 THEN Raise(W, "ValueError")
    ELSE [W EXCEPT !.nodes[n].used_files =
              Append(@, Use_init(file, link, register, transfer, optional))]

setStdout(W, n, filename) ==
    IF Failed(W) THEN W ELSE [W EXCEPT !.nodes[n].stdout = filename]
setStderr(W, n, filename) ==
    IF Failed(W) THEN W ELSE [W EXCEPT !.nodes[n].stderr = filename]
setStdin(W, n, filename) ==
    IF Failed(W) THEN W ELSE [W EXCEPT !.nodes[n].stdin = filename]

\* AbstractJob.invoke(when, what); notify is its alias
\* an invoke that keeps the latest notification only
invoke_replacing(W, n, when, what) ==
    IF Failed(W) THEN W
    ELSE [W EXCEPT !.nodes[n].notifications = <<<<when, what>>>>]

invoke(W, n, when, what) ==
    IF Failed(W) THEN W
    ELSE [W EXCEPT !.nodes[n].notifications = Append(@, <<when, what>>)]

\* Job(name, id=None, namespace=None, version=None, node_label=None); name
\* is a string or a Transformation
Job_init(W, name, id, namespace, version, node_label) ==
    IF Failed(W) THEN W
    ELSE
    LET isT == IsObj(name, "Transformation")
        t   == IF isT THEN W.xforms[name[2]] ELSE <<>>
        W1  == AbstractJob_init(W, "Job",
                   IF isT THEN t.name ELSE name, id, node_label,
                   IF isT THEN t.namespace ELSE None,
                   IF isT THEN t.version ELSE None)
        n   == NewNode(W1)
        W2  == IF ~Failed(W1) /\ Truthy(namespace)
               THEN [W1 EXCEPT !.nodes[n].namespace = namespace] ELSE W1
    IN  IF ~Failed(W2) /\ Truthy(version)
        THEN [W2 EXCEPT !.nodes[n].version = version] ELSE W2

\* DAX(name, id=None, node_label=None) and DAG(...): name is a string or a
\* File, which the node then uses with link=input, transfer=True,
\* register=False
SubWorkflow_init(W, cls, name, id, node_label) ==
    IF Failed(W) THEN W
    ELSE
    LET isF == IsObj(name, "File")
        W1  == AbstractJob_init(W, cls,
                   IF isF THEN W.files[name[2]].name ELSE name,
                   id, node_label, None, None)
    IN  IF isF
        THEN AbstractJob_uses(W1, NewNode(W1), name[2], PyStr(Link_INPUT),
                              False, True, None)
        ELSE W1

DAX_init(W, name, id, node_label) ==
    SubWorkflow_init(W, "DAX", name, id, node_label)
DAG_init(W, name, id, node_label) ==
    SubWorkflow_init(W, "DAG", name, id, node_label)

-----------------------------------------------------------------------------
(* Dependency and ADAG *)

Dependency_init(W, child) ==
    [W EXCEPT !.deps = Append(@, [child |-> child, parents |-> <<>>])]
NewDep(W) == Len(W.deps)

\* an addParent that keeps one pair per parent
Dependency_addParent_unique(W, d, parent, edge_label) ==
    IF \E i \in DOMAIN W.deps[d].parents : W.deps[d].parents[i][1] = parent
    THEN W
    ELSE [W EXCEPT !.deps[d].parents = Append(@, <<parent, edge_label>>)]

Dependency_addParent(W, d, parent, edge_label) ==
    [W EXCEPT !.deps[d].parents = Append(@, <<parent, edge_label>>)]

InitialSequence == 1

\* ADAG(name, count=None, index=None)
ADAG_init(W, name, count, index) ==
    IF Failed(W) THEN W
    ELSE [W EXCEPT !.adags = Append(@,
            [name |-> name, count |-> count, index |-> index,
             sequence |-> InitialSequence,
             jobs |-> <<>>, files |-> <<>>, executables |-> <<>>,
             lookup |-> EmptyDict, dependencies |-> <<>>,
             transformations |-> <<>>]),
                   !.admitted = Append(@, <<>>)]
NewADAG(W) == Len(W.adags)

\* a formatter that does not pad the sequence number
FormatId_unpadded(sequence) == "ID" \o ToString(sequence)

\* "ID%07d" % sequence
FormatId(sequence) == "ID" \o ZeroPad7(sequence)

\* an admission that advances the counter whether or not the id is set
addJob_counting(W, g, job) ==
    IF Failed(W) THEN W
    ELSE
    LET unset == W.nodes[job].id = None
        W1 == IF unset
              THEN [W EXCEPT
                      !.nodes[job].id = PyStr(FormatId(W.adags[g].sequence))]
              ELSE W
    IN  [W1 EXCEPT !.adags[g].jobs = Append(@, job),
                   !.adags[g].sequence = @ + 1,
                   !.admitted[g] = Append(@, unset)]

\* an admission that allocates an id whether or not the node has one
addJob_reassigning(W, g, job) ==
    IF Failed(W) THEN W
    ELSE
    [W EXCEPT !.nodes[job].id = PyStr(FormatId(W.adags[g].sequence)),
              !.adags[g].sequence = @ + 1,
              !.adags[g].jobs = Append(@, job),
              !.admitted[g] = Append(@, W.nodes[job].id = None)]

\* ADAG.addJob(job); addDAX, addDAG and addADAG call it
addJob(W, g, job) ==
    IF Failed(W) THEN W
    ELSE
    LET unset == W.nodes[job].id = None
        W1 == IF unset
              THEN [W EXCEPT
                      !.nodes[job].id = PyStr(FormatId(W.adags[g].sequence)),
                      !.adags[g].sequence = @ + 1]
              ELSE W
    IN  [W1 EXCEPT !.adags[g].jobs = Append(@, job),
                   !.admitted[g] = Append(@, unset)]

addDAX(W, g, dax) == addJob(W, g, dax)
addDAG(W, g, dag) == addJob(W, g, dag)

addFile(W, g, file) ==
    IF Failed(W) THEN W ELSE [W EXCEPT !.adags[g].files = Append(@, file)]

addExecutable(W, g, executable) ==
    IF Failed(W) THEN W
    ELSE [W EXCEPT !.adags[g].executables = Append(@, executable)]

addTransformation(W, g, transformation) ==
    IF Failed(W) THEN W
    ELSE [W EXCEPT !.adags[g].transformations = Append(@, transformation)]

\* an addDependency that makes a new record for every call
addDependency_appending(W, g, parent, child, edge_label) ==
    IF Failed(W) THEN W
    ELSE
    LET Wd == Dependency_init(W, child)
        W1 == [Wd EXCEPT
                 !.adags[g].lookup = DictPut(@, child, NewDep(Wd)),
                 !.adags[g].dependencies = Append(@, NewDep(Wd))]
    IN  Dependency_addParent(W1, NewDep(Wd), parent, edge_label)

\* ADAG.addDependency(parent, child, edge_label=None); the lookup dict is
\* keyed by the child object itself
addDependency(W, g, parent, child, edge_label) ==
    IF Failed(W) THEN W
    ELSE
    LET W1 == IF child \notin DOMAIN W.adags[g].lookup
              THEN LET Wd == Dependency_init(W, child)
                   IN  [Wd EXCEPT
                          !.adags[g].lookup = DictPut(@, child, NewDep(Wd)),
                          !.adags[g].dependencies = Append(@, NewDep(Wd))]
              ELSE W
    IN  Dependency_addParent(W1, W1.adags[g].lookup[child], parent,
                             edge_label)

-----------------------------------------------------------------------------
(* Encoder.  A toXML operator gives the SAX events that the text the method *)
(* returns tokenizes to; an exception raised while the text is built is a   *)
(* "raise" event at that place.                                             *)

StartEv(name, attrs) ==
    [ev |-> "start", name |-> name, attrs |-> attrs, text |-> <<>>]
EndEv(name) ==
    [ev |-> "end", name |-> name, attrs |-> EmptyDict, text |-> <<>>]
CharsEv(text) ==
    [ev |-> "chars", name |-> "", attrs |-> EmptyDict, text |-> text]
RaiseEv(exc) ==
    [ev |-> "raise", name |-> exc, attrs |-> EmptyDict, text |-> <<>>]

\* character content t between two tags: no event when it is empty
TextEvents(t) == IF t = <<>> THEN <<>> ELSE <<CharsEv(t)>>

\* <name attrs>inner</name>, or <name attrs/> when inner is empty
Element(name, attrs, inner) ==
    <<StartEv(name, attrs)>> \o inner \o <<EndEv(name)>>

\* ' k="%s"' % v
Attr(k, v) == k :> Unicode(v)
\* if v: ' k="%s"' % v
AttrIf(k, v) == IF Truthy(v) THEN k :> Unicode(v) ELSE EmptyDict
\* if v: ' k="%s"' % unicode(v).lower()
AttrIfLower(k, v) ==
    IF Truthy(v) THEN k :> Lower(Unicode(v)) ELSE EmptyDict

RECURSIVE Flatten(_)
Flatten(ss) == IF ss = <<>> THEN <<>> ELSE Head(ss) \o Flatten(Tail(ss))

Profile_toXML(W, p) ==
    IF ~IsObj(p, "Profile") THEN <<RaiseEv("AttributeError")>>
    ELSE LET o == W.profiles[p[2]]
         IN  Element("profile",
                     Attr("namespace", o.namespace) @@ Attr("key", o.key),
                     TextEvents(o.value))

Metadata_toXML(W, m) ==
    LET o == W.metadata[m[2]]
    IN  Element("metadata", Attr("key", o.key) @@ Attr("type", o.type),
                TextEvents(o.value))

PFN_toXML(W, p) ==
    LET o == W.pfns[p[2]]
    IN  Element("pfn", Attr("url", o.url) @@ Attr("site", o.site),
                Flatten([i \in DOMAIN o.profiles |->
                            Profile_toXML(W, o.profiles[i])]))

CatalogType_getInnerXML(W, f) ==
    LET o == W.files[f]
    IN  Flatten([i \in DOMAIN o.profiles |-> Profile_toXML(W, o.profiles[i])])
        \o Flatten([i \in DOMAIN o.metadata |->
                       Metadata_toXML(W, o.metadata[i])])
        \o Flatten([i \in DOMAIN o.pfns |-> PFN_toXML(W, o.pfns[i])])

File_toXML(W, f) ==
    LET o == W.files[f]
    IN  Element("file", Attr("name", o.name) @@ AttrIf("link", o.link),
                CatalogType_getInnerXML(W, f))

Executable_toXML(W, f) ==
    LET o == W.files[f]
    IN  Element("executable",
                Attr("name", o.name) @@ AttrIf("namespace", o.namespace)
                @@ AttrIf("version", o.version) @@ AttrIf("arch", o.arch)
                @@ AttrIf("os", o.os) @@ AttrIf("osrelease", o.osrelease)
                @@ AttrIf("osversion", o.osversion)
                @@ AttrIf("glibc", o.glibc),
                CatalogType_getInnerXML(W, f))

\* File.toArgumentXML
toArgumentXML(W, f) ==
    Element("file", Attr("name", W.files[f].name), <<>>)

\* File.toStdioXML(tag); an Executable has no such method
toStdioXML(W, f, tag) ==
    IF W.files[f].cls # "File" THEN <<RaiseEv("AttributeError")>>
    ELSE Element(tag,
                 Attr("name", W.files[f].name)
                 @@ Attr("link", PyStr(IF tag = "stdin" THEN "input"
                                       ELSE "output")),
                 <<>>)

\* the effective attributes Use.toXML computes: the override `or` the
\* attribute of the catalog entry
Use_effective(W, u) ==
    [link     |-> Or(u.link, W.files[u.file].link),
     optional |-> Or(u.optional, W.files[u.file].optional),
     register |-> Or(u.register, W.files[u.file].register),
     transfer |-> Or(u.transfer, W.files[u.file].transfer)]

Use_toXML(W, u) ==
    LET e     == Use_effective(W, u)
        isExe == W.files[u.file].cls = "Executable"
        namespace == IF isExe THEN W.files[u.file].namespace ELSE None
        version   == IF isExe THEN W.files[u.file].version ELSE None
    IN  Element("uses",
                Attr("name", W.files[u.file].name)
                @@ AttrIf("link", e.link)
                @@ AttrIfLower("optional", e.optional)
                @@ AttrIfLower("register", e.register)
                @@ AttrIfLower("transfer", e.transfer)
                @@ AttrIf("namespace", namespace)
                @@ AttrIf("version", version)
                @@ (IF isExe THEN "executable" :> "true" ELSE EmptyDict),
                <<>>)

Transformation_toXML(W, t) ==
    LET o == W.xforms[t]
    IN  Element("transformation",
                AttrIf("namespace", o.namespace) @@ Attr("name", o.name)
                @@ AttrIf("version", o.version),
                Flatten([i \in DOMAIN o.used_files |->
                            Use_toXML(W, o.used_files[i])]))

\* u' '.join(unicode(x) for x in arguments) as events: the literal text up
\* to a file reference is one run of character content
RECURSIVE ArgumentEvents(_, _, _, _)
ArgumentEvents(W, arguments, i, run) ==
    IF i > Len(arguments) THEN TextEvents(run)
    ELSE LET x   == arguments[i]
             sep == IF i > 1 THEN run \o <<" ">> ELSE run
         IN  IF IsObj(x, "File")
             THEN TextEvents(sep) \o toArgumentXML(W, x[2])
                  \o ArgumentEvents(W, arguments, i + 1, <<>>)
             ELSE ArgumentEvents(W, arguments, i + 1, sep \o x[2])

\* an encoder that emits the uses of a node ahead of its profiles
AbstractJob_innerXML_uses_first(W, n) ==
    LET o == W.nodes[n]
    IN  (IF Len(o.arguments) > 0
         THEN Element("argument", EmptyDict,
                      ArgumentEvents(W, o.arguments, 1, <<>>))
         ELSE <<>>)
        \o Flatten([i \in DOMAIN o.used_files |->
                       Use_toXML(W, o.used_files[i])])
        \o Flatten([i \in DOMAIN o.profiles |->
                       Profile_toXML(W, o.profiles[i])])
        \o (IF o.stdin # 0 THEN toStdioXML(W, o.stdin, "stdin") ELSE <<>>)
        \o (IF o.stdout # 0 THEN toStdioXML(W, o.stdout, "stdout") ELSE <<>>)
        \o (IF o.stderr # 0 THEN toStdioXML(W, o.stderr, "stderr") ELSE <<>>)
        \o Flatten([i \in DOMAIN o.notifications |->
                       Element("invoke",
                               Attr("when", o.notifications[i][1]),
                               TextEvents(o.notifications[i][2]))])

\* Job.toXML, DAX.toXML and DAG.toXML
AbstractJob_innerXML(W, n) ==
    LET o == W.nodes[n]
    IN  (IF Len(o.arguments) > 0
         THEN Element("argument", EmptyDict,
                      ArgumentEvents(W, o.arguments, 1, <<>>))
         ELSE <<>>)
        \o Flatten([i \in DOMAIN o.profiles |->
                       Profile_toXML(W, o.profiles[i])])
        \o (IF o.stdin # 0 THEN toStdioXML(W, o.stdin, "stdin") ELSE <<>>)
        \o (IF o.stdout # 0 THEN toStdioXML(W, o.stdout, "stdout") ELSE <<>>)
        \o (IF o.stderr # 0 THEN toStdioXML(W, o.stderr, "stderr") ELSE <<>>)
        \o Flatten([i \in DOMAIN o.used_files |->
                       Use_toXML(W, o.used_files[i])])
        \o Flatten([i \in DOMAIN o.notifications |->
                       Element("invoke",
                               Attr("when", o.notifications[i][1]),
                               TextEvents(o.notifications[i][2]))])

\* Job.toXML, DAX.toXML and DAG.toXML
AbstractJob_toXML(W, n) ==
    LET o == W.nodes[n]
    IN  IF o.cls = "Job"
        THEN Element("job",
                     Attr("id", o.id) @@ AttrIf("namespace", o.namespace)
                     @@ Attr("name", o.name) @@ AttrIf("version", o.version)
                     @@ AttrIf("node-label", o.node_label),
                     AbstractJob_innerXML(W, n))
        ELSE Element(IF o.cls = "DAX" THEN "dax" ELSE "dag",
                     Attr("id", o.id) @@ Attr("name", o.name)
                     @@ AttrIf("node-label", o.node_label),
                     AbstractJob_innerXML(W, n))

\* a child of None (a parent element outside any child element) has no id
Dependency_toXML(W, d) ==
    LET o == W.deps[d]
    IN  IF o.child = 0 THEN <<RaiseEv("AttributeError")>>
        ELSE
        Element("child", Attr("ref", W.nodes[o.child].id),
                Flatten([i \in DOMAIN o.parents |->
                    Element("parent",
                            Attr("ref", W.nodes[o.parents[i][1]].id)
                            @@ (IF o.parents[i][2] = None THEN EmptyDict
                                ELSE Attr("edge-label", o.parents[i][2])),
                            <<>>)]))


\* file.toXML() in the loops of writeXML: the method of the object's class
CatalogType_toXML(W, f) ==
    IF W.files[f].cls = "File" THEN File_toXML(W, f)
    ELSE Executable_toXML(W, f)

HasRaise(evs) == \E i \in DOMAIN evs : evs[i].ev = "raise"
RaisedExc(evs) ==
    evs[CHOOSE i \in DOMAIN evs :
            /\ evs[i].ev = "raise"
            /\ \A j \in 1..(i - 1) : evs[j].ev # "raise"].name

\* ' k="%d"' % v when v is true: %d takes a number
AttrIfD(k, v) ==
    IF ~Truthy(v) THEN EmptyDict
    ELSE IF IsInt(v) THEN k :> ToString(v[2])
    ELSE IF IsBool(v) THEN k :> "1"
    ELSE k :> "TypeError"
RaisesD(v) == Truthy(v) /\ ~IsInt(v) /\ ~IsBool(v)

SCHEMA_NAMESPACE == "http://pegasus.isi.edu/schema/DAX"
SCHEMA_LOCATION == "http://pegasus.isi.edu/schema/dax-3.2.xsd"
SCHEMA_VERSION == "3.2"

\* the top-level items writeXML writes one after the other: files,
\* executables, transformations, jobs, dependencies
\* an encoder that emits the child blocks in the order of the nodes
writeXML_items_by_node(W, g) ==
    LET a == W.adags[g]
    IN  [i \in DOMAIN a.files |-> CatalogType_toXML(W, a.files[i])]
        \o [i \in DOMAIN a.executables |->
               CatalogType_toXML(W, a.executables[i])]
        \o [i \in DOMAIN a.transformations |->
               Transformation_toXML(W, a.transformations[i])]
        \o [i \in DOMAIN a.jobs |-> AbstractJob_toXML(W, a.jobs[i])]
        \o [i \in DOMAIN a.jobs |->
               IF a.jobs[i] \in DOMAIN a.lookup
               THEN Dependency_toXML(W, a.lookup[a.jobs[i]])
               ELSE <<>>]

writeXML_items(W, g) ==
    LET a == W.adags[g]
    IN  [i \in DOMAIN a.files |-> CatalogType_toXML(W, a.files[i])]
        \o [i \in DOMAIN a.executables |->
               CatalogType_toXML(W, a.executables[i])]
        \o [i \in DOMAIN a.transformations |->
               Transformation_toXML(W, a.transformations[i])]
        \o [i \in DOMAIN a.jobs |-> AbstractJob_toXML(W, a.jobs[i])]
        \o [i \in DOMAIN a.dependencies |->
               Dependency_toXML(W, a.dependencies[i])]

\* an encoder that consumes the job list it writes
writeXML_consuming(W, g) ==
    IF Failed(W) THEN W
    ELSE
    [W EXCEPT !.out = DictPut(@, g, Flatten(writeXML_items(W, g))),
              !.adags[g].jobs = <<>>]

\* ADAG.writeXML(out): the sink receives the items one by one, so an item
\* whose toXML raises ends the document before it.  The header comments
\* (time stamp, user) are no part of the modelled document.
writeXML(W, g) ==
    IF Failed(W) THEN W
    ELSE
    LET a     == W.adags[g]
        items == writeXML_items(W, g)
        bad   == {i \in DOMAIN items : HasRaise(items[i])}
        open  == StartEv("adag",
                     ("xmlns" :> SCHEMA_NAMESPACE)
                     @@ ("xsi:schemaLocation" :>
                            SCHEMA_NAMESPACE \o " " \o SCHEMA_LOCATION)
                     @@ ("version" :> SCHEMA_VERSION)
                     @@ Attr("name", a.name)
                     @@ AttrIfD("count", a.count)
                     @@ AttrIfD("index", a.index))
    IN  IF RaisesD(a.count) \/ RaisesD(a.index)
        THEN Raise(W, "TypeError")
        ELSE IF bad # {}
        THEN LET k == CHOOSE i \in bad : \A j \in bad : i <= j
             IN  Raise([W EXCEPT !.out = DictPut(@, g, <<open>>
                           \o Flatten(SubSeq(items, 1, k - 1)))],
                       RaisedExc(items[k]))
        ELSE [W EXCEPT !.out = DictPut(@, g, <<open>> \o Flatten(items)
                                                \o <<EndEv("adag")>>)]

-----------------------------------------------------------------------------
(* State after a call *)

Commit(W) ==
    /\ files' = W.files
    /\ nodes' = W.nodes
    /\ xforms' = W.xforms
    /\ profiles' = W.profiles
    /\ metadata' = W.metadata
    /\ pfns' = W.pfns
    /\ deps' = W.deps
    /\ adags' = W.adags
    /\ handler' = W.handler
    /\ admitted' = W.admitted
    /\ out' = W.out
    /\ err' = W.err

-----------------------------------------------------------------------------
(* shlex.split(chars): POSIX rules, whitespace_split, no comments.  The    *)
(* scanner is in state "ws" between tokens, "a" inside a word, in a quote  *)
(* ("'" or "\"") or after an escape ("esc", with the state to return to).  *)

IsSpace(c) == c \in {" ", "\t", "\n"}
IsQuote(c) == c \in {"'", "\""}
IsEscape(c) == c = "\\"

RECURSIVE ShlexScan(_, _, _, _, _, _, _)
ShlexScan(text, i, state, back, token, quoted, acc) ==
    IF i > Len(text)
    THEN IF state \in {"'", "\"", "esc"}
         THEN [ok |-> FALSE, tokens |-> <<>>]
         ELSE [ok |-> TRUE,
               tokens |-> IF state = "a" /\ (token # <<>> \/ quoted)
                          THEN Append(acc, token) ELSE acc]
    ELSE
    LET c == text[i]
    IN  CASE state = "ws" ->
               IF IsSpace(c)
               THEN ShlexScan(text, i + 1, "ws", back, <<>>, FALSE, acc)
               ELSE IF IsEscape(c)
               THEN ShlexScan(text, i + 1, "esc", "a", <<>>, FALSE, acc)
               ELSE IF IsQuote(c)
               THEN ShlexScan(text, i + 1, c, back, <<>>, TRUE, acc)
               ELSE ShlexScan(text, i + 1, "a", back, <<c>>, FALSE, acc)
          [] state = "a" ->
               IF IsSpace(c)
               THEN ShlexScan(text, i + 1, "ws", back, <<>>, FALSE,
                              IF token # <<>> \/ quoted
                              THEN Append(acc, token) ELSE acc)
               ELSE IF IsQuote(c)
               THEN ShlexScan(text, i + 1, c, back, token, TRUE, acc)
               ELSE IF IsEscape(c)
               THEN ShlexScan(text, i + 1, "esc", "a", token, quoted, acc)
               ELSE ShlexScan(text, i + 1, "a", back, Append(token, c),
                              quoted, acc)
          [] state = "esc" ->
               ShlexScan(text, i + 1, back, back,
                         IF IsQuote(back) /\ c # "\\" /\ c # back
                         THEN token \o <<"\\", c>> ELSE Append(token, c),
                         quoted, acc)
          [] OTHER ->  \* inside a quote
               IF c = state
               THEN ShlexScan(text, i + 1, "a", back, token, quoted, acc)
               ELSE IF IsEscape(c) /\ state = "\""
               THEN ShlexScan(text, i + 1, "esc", state, token, quoted, acc)
               ELSE ShlexScan(text, i + 1, state, back, Append(token, c),
                              quoted, acc)

\* a split that returns no token for an unbalanced quote
shlex_split_lenient(chars) ==
    LET r == ShlexScan(chars, 1, "ws", "a", <<>>, FALSE, <<>>)
    IN  IF r.ok THEN r ELSE [ok |-> TRUE, tokens |-> <<>>]

shlex_split(chars) == ShlexScan(chars, 1, "ws", "a", <<>>, FALSE, <<>>)

-----------------------------------------------------------------------------
(* Decoder: DAXHandler *)

NoParent == ""

DAXHandler_init ==
    [elements |-> <<>>, adag |-> 0, jobmap |-> EmptyDict,
     filemap |-> EmptyDict, lastJob |-> 0, lastChild |-> 0,
     lastArgument |-> None, lastProfile |-> 0, lastMetadata |-> 0,
     lastPFN |-> 0, lastFile |-> 0, lastInvoke |-> None,
     lastTransformation |-> 0]

\* attrs.get(k)
Get(attrs, k) == IF k \in DOMAIN attrs THEN PyStr(attrs[k]) ELSE None

\* a Python list held in a handler field that may also be None
List(items) == <<"list", items>>

start_adag(W, parent, attrs) ==
    LET W1 == ADAG_init(W, Get(attrs, "name"), Get(attrs, "count"),
                        Get(attrs, "index"))
    IN  [W1 EXCEPT !.handler.adag = NewADAG(W1)]

\* a file element that merges the link it carries into a known entity
start_file_merging(W, parent, attrs) ==
    LET name  == Get(attrs, "name")
        link  == Get(attrs, "link")
        known == name \in DOMAIN W.handler.filemap
        W1 == IF known
              THEN [W EXCEPT !.files[W.handler.filemap[name]].link =
                        IF link = None THEN @ ELSE link]
              ELSE LET Wf == File_init(W, name, link, False, False, None)
                   IN  IF Failed(Wf) THEN Wf
                       ELSE [Wf EXCEPT !.handler.filemap =
                                 DictPut(@, name, NewFile(Wf))]
        f  == IF known THEN W.handler.filemap[name] ELSE NewFile(W1)
        W2 == IF Failed(W1) THEN W1
              ELSE IF parent = "adag" THEN addFile(W1, W1.handler.adag, f)
              ELSE IF parent = "argument"
              THEN IF W1.handler.lastArgument = None
                   THEN Raise(W1, "AttributeError")
                   ELSE [W1 EXCEPT !.handler.lastArgument =
                            List(Append(@[2], Obj("File", f)))]
              ELSE Raise(W1, "Exception")
    IN  IF Failed(W2) THEN W2 ELSE [W2 EXCEPT !.handler.lastFile = f]

\* a file element that also catalogues a file named in an argument
start_file_cataloguing(W, parent, attrs) ==
    LET name  == Get(attrs, "name")
        link  == Get(attrs, "link")
        known == name \in DOMAIN W.handler.filemap
        W1 == IF known THEN W
              ELSE LET Wf == File_init(W, name, link, False, False, None)
                   IN  IF Failed(Wf) THEN Wf
                       ELSE [Wf EXCEPT !.handler.filemap =
                                 DictPut(@, name, NewFile(Wf))]
        f  == IF known THEN W.handler.filemap[name] ELSE NewFile(W1)
        W2 == IF Failed(W1) THEN W1
              ELSE IF parent = "adag" THEN addFile(W1, W1.handler.adag, f)
              ELSE IF parent = "argument"
              THEN IF W1.handler.lastArgument = None
                   THEN Raise(W1, "AttributeError")
                   ELSE addFile([W1 EXCEPT !.handler.lastArgument =
                                    List(Append(@[2], Obj("File", f)))],
                                W1.handler.adag, f)
              ELSE Raise(W1, "Exception")
    IN  IF Failed(W2) THEN W2 ELSE [W2 EXCEPT !.handler.lastFile = f]

start_file(W, parent, attrs) ==
    LET name  == Get(attrs, "name")
        link  == Get(attrs, "link")
        known == name \in DOMAIN W.handler.filemap
        W1 == IF known THEN W
              ELSE LET Wf == File_init(W, name, link, False, False, None)
                   IN  IF Failed(Wf) THEN Wf
                       ELSE [Wf EXCEPT !.handler.filemap =
                                 DictPut(@, name, NewFile(Wf))]
        f  == IF known THEN W.handler.filemap[name] ELSE NewFile(W1)
        W2 == IF Failed(W1) THEN W1
              ELSE IF parent = "adag" THEN addFile(W1, W1.handler.adag, f)
              ELSE IF parent = "argument"
              THEN IF W1.handler.lastArgument = None
                   THEN Raise(W1, "AttributeError")
                   ELSE [W1 EXCEPT !.handler.lastArgument =
                            List(Append(@[2], Obj("File", f)))]
              ELSE Raise(W1, "Exception")
    IN  IF Failed(W2) THEN W2 ELSE [W2 EXCEPT !.handler.lastFile = f]

start_executable(W, parent, attrs) ==
    LET name == Get(attrs, "name")
        W1 == Executable_init(W, name, PyStr(Link_INPUT), False, True, None,
                  Get(attrs, "namespace"), Get(attrs, "version"),
                  [arch |-> Get(attrs, "arch"), os |-> Get(attrs, "os"),
                   osrelease |-> Get(attrs, "osrelease"),
                   osversion |-> Get(attrs, "osversion"),
                   glibc |-> Get(attrs, "glibc")])
        e  == NewFile(W1)
        W2 == IF Failed(W1) THEN W1
              ELSE [W1 EXCEPT !.handler.filemap = DictPut(@, name, e)]
        W3 == IF Failed(W2) THEN W2
              ELSE IF W2.handler.adag = 0 THEN Raise(W2, "AttributeError")
              ELSE addExecutable(W2, W2.handler.adag, e)
    IN  IF Failed(W3) THEN W3 ELSE [W3 EXCEPT !.handler.lastFile = e]

start_transformation(W, parent, attrs) ==
    LET W1 == Transformation_init(W, Get(attrs, "name"),
                  Get(attrs, "namespace"), Get(attrs, "version"))
        t  == NewXform(W1)
        W2 == [W1 EXCEPT !.handler.lastTransformation = t]
    IN  IF W2.handler.adag = 0 THEN Raise(W2, "AttributeError")
        ELSE addTransformation(W2, W2.handler.adag, t)

start_job(W, element, parent, attrs) ==
    LET id == Get(attrs, "id")
        name == Get(attrs, "name")
        node_label == Get(attrs, "node-label")
        W1 == IF element = "job"
              THEN Job_init(W, name, id, Get(attrs, "namespace"),
                            Get(attrs, "version"), node_label)
              ELSE IF element = "dag" THEN DAG_init(W, name, id, node_label)
              ELSE DAX_init(W, name, id, node_label)
        job == NewNode(W1)
        W2 == IF Failed(W1) THEN W1
              ELSE IF W1.handler.adag = 0 THEN Raise(W1, "AttributeError")
              ELSE addJob(W1, W1.handler.adag, job)
    IN  IF Failed(W2) THEN W2
        ELSE [W2 EXCEPT !.handler.jobmap = DictPut(@, id, job),
                        !.handler.lastJob = job]

start_argument(W, parent, attrs) ==
    [W EXCEPT !.handler.lastArgument = List(<<>>)]

start_profile(W, parent, attrs) ==
    LET W1 == Profile_init(W, Get(attrs, "namespace"), Get(attrs, "key"),
                           <<>>)
        p  == Obj("Profile", NewProfile(W1))
        W2 == IF parent = "job"
              THEN IF W1.handler.lastJob = 0 THEN Raise(W1, "AttributeError")
                   ELSE AbstractJob_addProfile(W1, W1.handler.lastJob, p)
              ELSE IF parent \in {"file", "executable"}
              THEN IF W1.handler.lastFile = 0
                   THEN Raise(W1, "AttributeError")
                   ELSE CatalogType_addProfile(W1, W1.handler.lastFile, p)
              ELSE IF parent = "pfn"
              THEN IF W1.handler.lastPFN = 0 THEN Raise(W1, "AttributeError")
                   ELSE PFN_addProfile(W1, W1.handler.lastPFN, <<p>>)
              ELSE Raise(W1, "Exception")
    IN  IF Failed(W2) THEN W2 ELSE [W2 EXCEPT !.handler.lastProfile = p[2]]

\* Transformation and AbstractJob define no addMetadata
start_metadata(W, parent, attrs) ==
    LET W1 == Metadata_init(W, Get(attrs, "key"), Get(attrs, "type"), <<>>)
        meta == Obj("Metadata", NewMetadata(W1))
        W2 == IF parent \in {"file", "executable"}
              THEN IF W1.handler.lastFile = 0
                   THEN Raise(W1, "AttributeError")
                   ELSE CatalogType_addMetadata(W1, W1.handler.lastFile, meta)
              ELSE IF parent = "transformation"
              THEN Raise(W1, "AttributeError")
              ELSE IF parent = "job"
              THEN Raise(W1, "AttributeError")
              ELSE Raise(W1, "Exception")
    IN  IF Failed(W2) THEN W2
        ELSE [W2 EXCEPT !.handler.lastMetadata = meta[2]]

start_pfn(W, parent, attrs) ==
    LET W1 == PFN_init(W, Get(attrs, "url"), Get(attrs, "site"))
        pfn == Obj("PFN", NewPFN(W1))
        W2 == IF parent \in {"file", "executable"}
              THEN IF W1.handler.lastFile = 0
                   THEN Raise(W1, "AttributeError")
                   ELSE CatalogType_addPFN(W1, W1.handler.lastFile, pfn)
              ELSE Raise(W1, "Exception")
    IN  IF Failed(W2) THEN W2 ELSE [W2 EXCEPT !.handler.lastPFN = pfn[2]]

start_stdio(W, element, parent, attrs) ==
    LET W1 == File_init(W, Get(attrs, "name"), Get(attrs, "link"),
                        False, False, None)
        f  == NewFile(W1)
    IN  IF Failed(W1) THEN W1
        ELSE IF W1.handler.lastJob = 0 THEN Raise(W1, "AttributeError")
        ELSE IF element = "stdin" THEN setStdin(W1, W1.handler.lastJob, f)
        ELSE IF element = "stdout" THEN setStdout(W1, W1.handler.lastJob, f)
        ELSE setStderr(W1, W1.handler.lastJob, f)

\* a uses branch that constructs the file without consulting the table
start_uses_fresh(W, parent, attrs) ==
    LET link == Get(attrs, "link")
        register == Get(attrs, "register")
        transfer == Get(attrs, "transfer")
        W1 == File_init(W, Get(attrs, "name"), link, register, transfer,
                        None)
    IN  IF Failed(W1) \/ W1.handler.lastJob = 0
        THEN Raise(W1, "AttributeError")
        ELSE AbstractJob_uses(W1, W1.handler.lastJob, NewFile(W1), link,
                              register, transfer, Get(attrs, "optional"))

\* a uses branch that attaches the Use without the declared overrides
start_uses_dropping(W, parent, attrs) ==
    LET name == Get(attrs, "name")
        link == Get(attrs, "link")
        optional == Get(attrs, "optional")
        register == Get(attrs, "register")
        transfer == Get(attrs, "transfer")
        executable == Truthy(Get(attrs, "executable"))
        known == name \in DOMAIN W.handler.filemap
        W1 == IF known THEN W
              ELSE LET Wf == IF executable
                             THEN Executable_init(W, name, link, register,
                                      transfer, None,
                                      Get(attrs, "namespace"),
                                      Get(attrs, "version"), NoPlatform)
                             ELSE File_init(W, name, link, register,
                                            transfer, None)
                   IN  IF Failed(Wf) THEN Wf
                       ELSE [Wf EXCEPT !.handler.filemap =
                                 DictPut(@, name, NewFile(Wf))]
        f  == IF known THEN W.handler.filemap[name] ELSE NewFile(W1)
    IN  IF Failed(W1) THEN W1
        ELSE IF parent \in {"job", "dax", "dag"}
        THEN IF W1.handler.lastJob = 0 THEN Raise(W1, "AttributeError")
             ELSE AbstractJob_uses(W1, W1.handler.lastJob, f, None, None,
                                   None, None)
        ELSE IF parent = "transformation"
        THEN IF W1.handler.lastTransformation = 0
             THEN Raise(W1, "AttributeError")
             ELSE Transformation_uses(W1, W1.handler.lastTransformation, f,
                                      None, None, None, None)
        ELSE Raise(W1, "Exception")

\* a uses branch that parses the executable flag as a boolean
start_uses_strict(W, parent, attrs) ==
    LET name == Get(attrs, "name")
        link == Get(attrs, "link")
        optional == Get(attrs, "optional")
        register == Get(attrs, "register")
        transfer == Get(attrs, "transfer")
        executable == Get(attrs, "executable") = PyStr("true")
        known == name \in DOMAIN W.handler.filemap
        W1 == IF known THEN W
              ELSE LET Wf == IF executable
                             THEN Executable_init(W, name, link, register,
                                      transfer, None,
                                      Get(attrs, "namespace"),
                                      Get(attrs, "version"), NoPlatform)
                             ELSE File_init(W, name, link, register,
                                            transfer, None)
                   IN  IF Failed(Wf) THEN Wf
                       ELSE [Wf EXCEPT !.handler.filemap =
                                 DictPut(@, name, NewFile(Wf))]
        f  == IF known THEN W.handler.filemap[name] ELSE NewFile(W1)
    IN  IF Failed(W1) THEN W1
        ELSE IF parent \in {"job", "dax", "dag"}
        THEN IF W1.handler.lastJob = 0 THEN Raise(W1, "AttributeError")
             ELSE AbstractJob_uses(W1, W1.handler.lastJob, f, link, register,
                                   transfer, optional)
        ELSE IF parent = "transformation"
        THEN IF W1.handler.lastTransformation = 0
             THEN Raise(W1, "AttributeError")
             ELSE Transformation_uses(W1, W1.handler.lastTransformation, f,
                                      link, register, transfer, optional)
        ELSE Raise(W1, "Exception")

start_uses(W, parent, attrs) ==
    LET name == Get(attrs, "name")
        link == Get(attrs, "link")
        optional == Get(attrs, "optional")
        register == Get(attrs, "register")
        transfer == Get(attrs, "transfer")
        executable == Truthy(Get(attrs, "executable"))
        known == name \in DOMAIN W.handler.filemap
        W1 == IF known THEN W
              ELSE LET Wf == IF executable
                             THEN Executable_init(W, name, link, register,
                                      transfer, None,
                                      Get(attrs, "namespace"),
                                      Get(attrs, "version"), NoPlatform)
                             ELSE File_init(W, name, link, register,
                                            transfer, None)
                   IN  IF Failed(Wf) THEN Wf
                       ELSE [Wf EXCEPT !.handler.filemap =
                                 DictPut(@, name, NewFile(Wf))]
        f  == IF known THEN W.handler.filemap[name] ELSE NewFile(W1)
    IN  IF Failed(W1) THEN W1
        ELSE IF parent \in {"job", "dax", "dag"}
        THEN IF W1.handler.lastJob = 0 THEN Raise(W1, "AttributeError")
             ELSE AbstractJob_uses(W1, W1.handler.lastJob, f, link, register,
                                   transfer, optional)
        ELSE IF parent = "transformation"
        THEN IF W1.handler.lastTransformation = 0
             THEN Raise(W1, "AttributeError")
             ELSE Transformation_uses(W1, W1.handler.lastTransformation, f,
                                      link, register, transfer, optional)
        ELSE Raise(W1, "Exception")

start_invoke(W, parent, attrs) ==
    [W EXCEPT !.handler.lastInvoke = List(<<Get(attrs, "when"), <<>>>>)]

\* a child element that lets an unknown ref pass, with no pending child
start_child_lenient(W, parent, attrs) ==
    LET ref == Get(attrs, "ref")
    IN  IF ref \notin DOMAIN W.handler.jobmap
        THEN [W EXCEPT !.handler.lastChild = 0]
        ELSE [W EXCEPT !.handler.lastChild = W.handler.jobmap[ref]]

start_child(W, parent, attrs) ==
    LET ref == Get(attrs, "ref")
    IN  IF ref \notin DOMAIN W.handler.jobmap THEN Raise(W, "KeyError")
        ELSE [W EXCEPT !.handler.lastChild = W.handler.jobmap[ref]]

\* a parent element that takes the roles the other way round
start_parent_swapped(W, parent, attrs) ==
    LET ref == Get(attrs, "ref")
    IN  IF ref \notin DOMAIN W.handler.jobmap THEN Raise(W, "KeyError")
        ELSE IF W.handler.adag = 0 THEN Raise(W, "AttributeError")
        ELSE addDependency(W, W.handler.adag, W.handler.lastChild,
                           W.handler.jobmap[ref], Get(attrs, "edge-label"))

start_parent(W, parent, attrs) ==
    LET ref == Get(attrs, "ref")
    IN  IF ref \notin DOMAIN W.handler.jobmap THEN Raise(W, "KeyError")
        ELSE IF W.handler.adag = 0 THEN Raise(W, "AttributeError")
        ELSE addDependency(W, W.handler.adag, W.handler.jobmap[ref],
                           W.handler.lastChild, Get(attrs, "edge-label"))

\* DAXHandler.startElement(element, attrs).  The last branch formats its
\* message with the local `name`, which no earlier line of that path has
\* assigned: Python raises UnboundLocalError there.
startElement(W, element, attrs) ==
    LET W0 == [W EXCEPT !.handler.elements = <<element>> \o @]
        parent == IF Len(W0.handler.elements) > 1
                  THEN W0.handler.elements[2] ELSE NoParent
    IN  CASE element = "adag" -> start_adag(W0, parent, attrs)
          [] element = "file" -> start_file(W0, parent, attrs)
          [] element = "executable" -> start_executable(W0, parent, attrs)
          [] element = "transformation" ->
                 start_transformation(W0, parent, attrs)
          [] element \in {"job", "dag", "dax"} ->
                 start_job(W0, element, parent, attrs)
          [] element = "argument" -> start_argument(W0, parent, attrs)
          [] element = "profile" -> start_profile(W0, parent, attrs)
          [] element = "metadata" -> start_metadata(W0, parent, attrs)
          [] element = "pfn" -> start_pfn(W0, parent, attrs)
          [] element \in {"stdin", "stdout", "stderr"} ->
                 start_stdio(W0, element, parent, attrs)
          [] element = "uses" -> start_uses(W0, parent, attrs)
          [] element = "invoke" -> start_invoke(W0, parent, attrs)
          [] element = "child" -> start_child(W0, parent, attrs)
          [] element = "parent" -> start_parent(W0, parent, attrs)
          [] OTHER -> Raise(W0, "UnboundLocalError")

\* DAXHandler.characters(chars)
\* a characters that commits the tokens of an argument as they arrive
characters_committing(W, chars) ==
    LET parent == W.handler.elements[1]
    IN  IF parent = "argument"
        THEN LET r == shlex_split(chars)
             IN  IF ~r.ok THEN Raise(W, "ValueError")
                 ELSE IF W.handler.lastArgument = None
                 THEN Raise(W, "TypeError")
                 ELSE AbstractJob_addArguments(W, W.handler.lastJob,
                          [i \in DOMAIN r.tokens |-> Text(r.tokens[i])])
        ELSE IF parent = "profile"
        THEN IF W.handler.lastProfile = 0 THEN Raise(W, "AttributeError")
             ELSE [W EXCEPT !.profiles[W.handler.lastProfile].value =
                       @ \o chars]
        ELSE IF parent = "metadata"
        THEN IF W.handler.lastMetadata = 0 THEN Raise(W, "AttributeError")
             ELSE [W EXCEPT !.metadata[W.handler.lastMetadata].value =
                       @ \o chars]
        ELSE IF parent = "invoke"
        THEN IF W.handler.lastInvoke = None THEN Raise(W, "TypeError")
             ELSE [W EXCEPT !.handler.lastInvoke =
                       List(<<@[2][1], @[2][2] \o chars>>)]
        ELSE W

characters(W, chars) ==
    LET parent == W.handler.elements[1]
    IN  IF parent = "argument"
        THEN LET r == shlex_split(chars)
             IN  IF ~r.ok THEN Raise(W, "ValueError")
                 ELSE IF W.handler.lastArgument = None
                 THEN Raise(W, "TypeError")
                 ELSE [W EXCEPT !.handler.lastArgument =
                          List(@[2] \o [i \in DOMAIN r.tokens |->
                                           Text(r.tokens[i])])]
        ELSE IF parent = "profile"
        THEN IF W.handler.lastProfile = 0 THEN Raise(W, "AttributeError")
             ELSE [W EXCEPT !.profiles[W.handler.lastProfile].value =
                       @ \o chars]
        ELSE IF parent = "metadata"
        THEN IF W.handler.lastMetadata = 0 THEN Raise(W, "AttributeError")
             ELSE [W EXCEPT !.metadata[W.handler.lastMetadata].value =
                       @ \o chars]
        ELSE IF parent = "invoke"
        THEN IF W.handler.lastInvoke = None THEN Raise(W, "TypeError")
             ELSE [W EXCEPT !.handler.lastInvoke =
                       List(<<@[2][1], @[2][2] \o chars>>)]
        ELSE W

\* DAXHandler.endElement(element)
\* an endElement that leaves the current node set when its element ends
endElement_keeping(W, element) ==
    LET W0 == [W EXCEPT !.handler.elements = Tail(@)]
    IN  IF element = "child" THEN [W0 EXCEPT !.handler.lastChild = 0]
        ELSE IF element \in {"job", "dax", "dag"}
        THEN W0
        ELSE IF element = "argument"
        THEN IF W0.handler.lastJob = 0 THEN Raise(W0, "AttributeError")
             ELSE IF W0.handler.lastArgument = None
             THEN Raise(W0, "TypeError")
             ELSE [AbstractJob_addArguments(W0, W0.handler.lastJob,
                                            W0.handler.lastArgument[2])
                      EXCEPT !.handler.lastArgument = None]
        ELSE IF element = "profile"
        THEN [W0 EXCEPT !.handler.lastProfile = 0]
        ELSE IF element = "metadata"
        THEN [W0 EXCEPT !.handler.lastMetadata = 0]
        ELSE IF element = "pfn" THEN [W0 EXCEPT !.handler.lastPFN = 0]
        ELSE IF element = "invoke"
        THEN IF W0.handler.lastJob = 0 THEN Raise(W0, "AttributeError")
             ELSE IF W0.handler.lastInvoke = None
             THEN Raise(W0, "TypeError")
             ELSE [invoke(W0, W0.handler.lastJob,
                          W0.handler.lastInvoke[2][1],
                          W0.handler.lastInvoke[2][2])
                      EXCEPT !.handler.lastInvoke = None]
        ELSE IF element = "transformation"
        THEN [W0 EXCEPT !.handler.lastTransformation = 0]
        ELSE W0

endElement(W, element) ==
    LET W0 == [W EXCEPT !.handler.elements = Tail(@)]
    IN  IF element = "child" THEN [W0 EXCEPT !.handler.lastChild = 0]
        ELSE IF element \in {"job", "dax", "dag"}
        THEN [W0 EXCEPT !.handler.lastJob = 0]
        ELSE IF element = "argument"
        THEN IF W0.handler.lastJob = 0 THEN Raise(W0, "AttributeError")
             ELSE IF W0.handler.lastArgument = None
             THEN Raise(W0, "TypeError")
             ELSE [AbstractJob_addArguments(W0, W0.handler.lastJob,
                                            W0.handler.lastArgument[2])
                      EXCEPT !.handler.lastArgument = None]
        ELSE IF element = "profile"
        THEN [W0 EXCEPT !.handler.lastProfile = 0]
        ELSE IF element = "metadata"
        THEN [W0 EXCEPT !.handler.lastMetadata = 0]
        ELSE IF element = "pfn" THEN [W0 EXCEPT !.handler.lastPFN = 0]
        ELSE IF element = "invoke"
        THEN IF W0.handler.lastJob = 0 THEN Raise(W0, "AttributeError")
             ELSE IF W0.handler.lastInvoke = None
             THEN Raise(W0, "TypeError")
             ELSE [invoke(W0, W0.handler.lastJob,
                          W0.handler.lastInvoke[2][1],
                          W0.handler.lastInvoke[2][2])
                      EXCEPT !.handler.lastInvoke = None]
        ELSE IF element = "transformation"
        THEN [W0 EXCEPT !.handler.lastTransformation = 0]
        ELSE W0

-----------------------------------------------------------------------------
(* Bounds and the inputs the callers draw from *)

MaxNodes == 3       \* nodes constructed
MaxJobs == 2        \* addJob calls, all graphs together
MaxParents == 1     \* addDependency calls

MaxFiles == 1       \* files constructed
MaxArguments == 1   \* addArguments calls
MaxUses == 1        \* uses calls

NodeIds == {None, PyStr("ID0000001")}
EdgeLabels == {None, PyStr("e")}

\* the characters of a string
Chars(s) == [i \in 1..Len(s) |-> SubSeq(s, i, i)]

\* the name of the i-th file a caller constructs
FileName(i) == PyStr(<<"f.a", "f.b", "f.c">>[((i - 1) % 3) + 1])

\* (link, register) a caller constructs a file with
FileAttrs == {<<None, False>>, <<PyStr(Link_INPUT), True>>}

\* (link, register) overrides a caller passes to uses
UseOverrides == {<<None, None>>, <<PyStr(Link_OUTPUT), False>>}

\* the argument lists a caller passes to addArguments; fs are the files
ArgLists(fs) ==
    {<<Text(Chars("-a"))>>, <<Text(Chars("-a preprocess"))>>}
    \cup {<<Text(Chars("-i")), Obj("File", f)>> : f \in fs}

\* (count, index) a caller constructs a graph with
Headers == {<<None, None>>, <<PyInt(10), PyInt(5)>>, <<PyInt(10), PyInt(0)>>}

MaxDecls == 2       \* top-level file declarations of a document

\* k :> v when v is given
Given(k, v) == IF v = "" THEN EmptyDict ELSE k :> v

\* <file name=... link=.../> as a document declares it
FileDecls ==
    {Element("file", ("name" :> n) @@ Given("link", l), <<>>) :
        n \in {"f.a", "f.b"}, l \in {"", Link_INPUT}}

\* <uses name="f.a" link=.../>, or no uses element
UsesDecls ==
    {<<>>} \cup {Element("uses", ("name" :> "f.a") @@ Given("link", l), <<>>) :
                    l \in {"", Link_OUTPUT}}

\* the documents handed to the parser: up to MaxDecls file declarations,
\* then one job with an argument and at most one uses element
Docs ==
    {<<StartEv("adag", "name" :> "diamond")>>
     \o Flatten(decls)
     \o Element("job", ("id" :> "ID0000001") @@ ("name" :> "n"),
                Element("argument", EmptyDict, <<CharsEv(Chars("-a"))>>)
                \o uses)
     \o <<EndEv("adag")>> :
        decls \in UNION {[1..k -> FileDecls] : k \in 0..MaxDecls},
        uses \in UsesDecls}

\* the class of the i-th node a caller constructs: Job, DAX, DAG in turn
KindOf(i) == <<"Job", "DAX", "DAG">>[((i - 1) % 3) + 1]

Sum(f) ==
    LET RECURSIVE S(_)
        S(i) == IF i = 0 THEN 0 ELSE f[i] + S(i - 1)
    IN  S(Len(f))

-----------------------------------------------------------------------------
(* API calls *)

Idle == input = <<>> /\ handler = DAXHandler_init

\* what a call that is no part of a parse leaves alone
ApiFrame == UNCHANGED <<input, result>>

NewNodeCall(cls, name, id) ==
    /\ Idle
    /\ Len(nodes) < MaxNodes
    /\ Commit(IF cls = "Job" THEN Job_init(World, name, id, None, None, None)
              ELSE IF cls = "DAX" THEN DAX_init(World, name, id, None)
              ELSE DAG_init(World, name, id, None))
    /\ ApiFrame

CanAdmit == Sum([g \in DOMAIN adags |-> Len(adags[g].jobs)]) < MaxJobs

AddJobCall(g, n) ==
    /\ Idle
    /\ CanAdmit
    /\ Commit(addJob(World, g, n))
    /\ ApiFrame

AddDAXCall(g, n) ==
    /\ Idle
    /\ CanAdmit
    /\ nodes[n].cls = "DAX"
    /\ Commit(addDAX(World, g, n))
    /\ ApiFrame

AddDAGCall(g, n) ==
    /\ Idle
    /\ CanAdmit
    /\ nodes[n].cls = "DAG"
    /\ Commit(addDAG(World, g, n))
    /\ ApiFrame

AddDependencyCall(g, parent, child, edge_label) ==
    /\ Idle
    /\ Sum([d \in DOMAIN deps |-> Len(deps[d].parents)]) < MaxParents
    /\ Commit(addDependency(World, g, parent, child, edge_label))
    /\ ApiFrame

WriteXMLCall(g) ==
    /\ Idle
    /\ Commit(writeXML([World EXCEPT !.out = out], g))
    /\ ApiFrame

NewFileCall(name, link, register) ==
    /\ Idle
    /\ Len(files) < MaxFiles
    /\ Commit(File_init(World, name, link, register, False, None))
    /\ ApiFrame

AddFileCall(g, f) ==
    /\ Idle
    /\ Commit(addFile(World, g, f))
    /\ ApiFrame

AddArgumentsCall(n, arguments) ==
    /\ Idle
    /\ Cardinality({i \in DOMAIN nodes : nodes[i].arguments # <<>>})
           < MaxArguments
    /\ Commit(AbstractJob_addArguments(World, n, arguments))
    /\ ApiFrame

UsesCall(n, f, link, register) ==
    /\ Idle
    /\ Sum([i \in DOMAIN nodes |-> Len(nodes[i].used_files)]) < MaxUses
    /\ Commit(AbstractJob_uses(World, n, f, link, register, None, None))
    /\ ApiFrame

\* parseString(the document written for g) begins: a new handler, and the
\* events of the document for xml.sax to deliver
ParseStringCall(g) ==
    /\ Idle
    /\ g \in DOMAIN out
    /\ err = NoErr
    /\ Commit(World)
    /\ input' = out[g]
    /\ UNCHANGED result

Parsing == input # <<>> /\ err = NoErr

\* what a callback leaves of the input: an exception ends the parse, and
\* the event that raised it and the events after it stay undelivered
Delivered(W) ==
    /\ Commit(W)
    /\ input' = IF Failed(W) THEN input ELSE Tail(input)
    /\ UNCHANGED result

StartElementCall ==
    /\ Parsing
    /\ Head(input).ev = "start"
    /\ Delivered(startElement(World, Head(input).name, Head(input).attrs))

CharactersCall ==
    /\ Parsing
    /\ Head(input).ev = "chars"
    /\ Delivered(characters(World, Head(input).text))

EndElementCall ==
    /\ Parsing
    /\ Head(input).ev = "end"
    /\ Delivered(endElement(World, Head(input).name))

\* parseString and parse return handler.adag once the document is read
ParseReturn ==
    /\ input = <<>>
    /\ handler.adag # 0
    /\ Commit([World EXCEPT !.handler = DAXHandler_init])
    /\ result' = handler.adag
    /\ UNCHANGED input

-----------------------------------------------------------------------------
(* Specification of the identifier allocator: the caller has constructed   *)
(* two graphs; nodes are constructed with or without an id and admitted,   *)
(* in any order, to either graph.                                          *)

Empty ==
    [files |-> <<>>, nodes |-> <<>>, xforms |-> <<>>, profiles |-> <<>>,
     metadata |-> <<>>, pfns |-> <<>>, deps |-> <<>>, adags |-> <<>>,
     handler |-> DAXHandler_init, admitted |-> <<>>, out |-> NoDocs,
     err |-> NoErr]

\* the state in which the caller holds W and a parse of doc has begun
Start(W, doc) ==
    /\ files = W.files
    /\ nodes = W.nodes
    /\ xforms = W.xforms
    /\ profiles = W.profiles
    /\ metadata = W.metadata
    /\ pfns = W.pfns
    /\ deps = W.deps
    /\ adags = W.adags
    /\ handler = W.handler
    /\ admitted = W.admitted
    /\ out = W.out
    /\ err = W.err
    /\ input = doc
    /\ result = 0

InitAlloc ==
    Start(ADAG_init(ADAG_init(Empty, PyStr("diamond"), None, None),
                    PyStr("other"), None, None), <<>>)

\* Any node may be admitted to the first graph; the second graph receives
\* nodes the first graph holds (the same node added again, elsewhere).
Admissible(g) ==
    IF g = 1 THEN DOMAIN nodes
    ELSE {adags[1].jobs[i] : i \in DOMAIN adags[1].jobs}

\* Dependencies are drawn between the first node and the latest one.
NextAlloc ==
    \/ \E id \in NodeIds :
           NewNodeCall(KindOf(Len(nodes) + 1), PyStr("n"), id)
    \/ \E g \in DOMAIN adags : \E n \in Admissible(g) : AddJobCall(g, n)
    \/ \E g \in DOMAIN adags : \E n \in Admissible(g) : AddDAXCall(g, n)
    \/ \E g \in DOMAIN adags : \E n \in Admissible(g) : AddDAGCall(g, n)
    \/ nodes # <<>> /\ AddDependencyCall(1, 1, Len(nodes), None)
    \/ \E g \in DOMAIN adags : WriteXMLCall(g)

SpecAlloc == InitAlloc /\ [][NextAlloc]_vars

-----------------------------------------------------------------------------
(* Specification of the round trip: the caller builds one graph (files,    *)
(* then nodes, then admissions, catalog entries and a dependency), writes  *)
(* it, parses what was written and writes the graph the parse returned.    *)

InitRT ==
    \E h \in Headers :
        Start(ADAG_init(Empty, PyStr("diamond"), h[1], h[2]), <<>>)

Building == result = 0
Held(g) == {adags[g].jobs[i] : i \in DOMAIN adags[g].jobs}

\* nodes are admitted in the order of their construction
NextToAdmit(n) == \A m \in Held(1) : m < n

NextRT ==
    \/ \E a \in FileAttrs :
           /\ Building /\ nodes = <<>>
           /\ NewFileCall(FileName(Len(files) + 1), a[1], a[2])
    \/ /\ Building /\ adags[1].jobs = <<>>
       /\ NewNodeCall(KindOf(Len(nodes) + 1), PyStr("n"), None)
    \/ \E arguments \in ArgLists(DOMAIN files) :
           /\ Building /\ Len(nodes) = 1 /\ adags[1].jobs = <<>>
           /\ AddArgumentsCall(1, arguments)
    \/ \E f \in DOMAIN files : \E o \in UseOverrides :
           /\ Building /\ Len(nodes) = 1 /\ adags[1].jobs = <<>>
           /\ UsesCall(1, f, o[1], o[2])
    \/ \E n \in DOMAIN nodes :
           /\ Building /\ NextToAdmit(n) /\ nodes[n].cls = "Job"
           /\ AddJobCall(1, n)
    \/ \E n \in DOMAIN nodes :
           /\ Building /\ NextToAdmit(n) /\ AddDAXCall(1, n)
    \/ \E n \in DOMAIN nodes :
           /\ Building /\ NextToAdmit(n) /\ AddDAGCall(1, n)
    \/ \E f \in DOMAIN files :
           /\ Building /\ adags[1].files = <<>> /\ AddFileCall(1, f)
    \/ \E l \in EdgeLabels :
           /\ Building /\ Len(adags[1].jobs) = 2
           /\ AddDependencyCall(1, adags[1].jobs[1], adags[1].jobs[2], l)
    \/ \E g \in {1, result} \cap DOMAIN adags : WriteXMLCall(g)
    \/ Building /\ ParseStringCall(1)
    \/ StartElementCall
    \/ CharactersCall
    \/ EndElementCall
    \/ ParseReturn

SpecRT == InitRT /\ [][NextRT]_vars

-----------------------------------------------------------------------------
(* Specification of the decoder: the parser delivers a document callback   *)
(* by callback; the caller writes the graph returned and admits new nodes  *)
(* to it.                                                                  *)

InitDec == \E doc \in Docs : Start(Empty, doc)

NextDec ==
    \/ StartElementCall
    \/ CharactersCall
    \/ EndElementCall
    \/ ParseReturn
    \/ \E id \in NodeIds :
           result # 0 /\ NewNodeCall(KindOf(Len(nodes) + 1), PyStr("n"), id)
    \/ /\ result # 0
       /\ \E n \in DOMAIN nodes \ Held(result) : AddJobCall(result, n)
    \/ result # 0 /\ WriteXMLCall(result)

SpecDec == InitDec /\ [][NextDec]_vars

-----------------------------------------------------------------------------
(* Properties of the round trip *)

\* an attribute value as a document renders it; None is no value
Rendered(v) == IF v = None THEN None ELSE PyStr(Lower(Unicode(v)))

\* a use: the name of the file and the four overrides
UseView(u) ==
    [file |-> files[u.file].name, link |-> Rendered(u.link),
     register |-> Rendered(u.register), transfer |-> Rendered(u.transfer),
     optional |-> Rendered(u.optional)]

\* an argument: a literal token, or a reference to a file by name
ArgView(a) == IF IsObj(a, "File") THEN <<"File", files[a[2]].name>> ELSE a

NodeView(n) ==
    [kind |-> nodes[n].cls, id |-> nodes[n].id,
     arguments |-> [i \in DOMAIN nodes[n].arguments |->
                       ArgView(nodes[n].arguments[i])],
     uses |-> [i \in DOMAIN nodes[n].used_files |->
                  UseView(nodes[n].used_files[i])]]

\* the (parent, child, edge label) edges of a graph, by node id
EdgeView(g) ==
    UNION {{<<nodes[deps[d].parents[i][1]].id, nodes[deps[d].child].id,
              deps[d].parents[i][2]>> : i \in DOMAIN deps[d].parents} :
           d \in {adags[g].dependencies[k] :
                      k \in DOMAIN adags[g].dependencies}}

GraphView(g) ==
    [jobs |-> [i \in DOMAIN adags[g].jobs |-> NodeView(adags[g].jobs[i])],
     edges |-> EdgeView(g)]

\* C1: for a graph with at least one node, the parse of the document
\* written for it completes and returns a graph with the same node ids and
\* kinds in the same order, the same arguments per node, the same
\* overrides per use and the same dependency edges.
RoundTrip ==
    adags[1].jobs # <<>> =>
        /\ input # <<>> => err = NoErr
        /\ result # 0 => GraphView(result) = GraphView(1)

\* C2: for a graph with at least one node, parsing the document written
\* for it and writing the graph returned completes without error and
\* writes the same document.
EncodeFixedPoint ==
    adags[1].jobs # <<>> =>
        /\ input # <<>> => err = NoErr
        /\ result # 0 =>
              /\ err = NoErr
              /\ result \in DOMAIN out =>
                    out[result] = writeXML(World, 1).out[1]

\* C10: each effective attribute of a use is the override when the
\* override is set, whatever its value, and the attribute of the catalog
\* entry when it is not.
UseResolution ==
    \A n \in DOMAIN nodes : \A i \in DOMAIN nodes[n].used_files :
        LET u == nodes[n].used_files[i]
            f == files[u.file]
            e == Use_effective(World, u)
            Rule(override, attribute) ==
                IF override # None THEN override ELSE attribute
        IN  /\ e.link = Rule(u.link, f.link)
            /\ e.register = Rule(u.register, f.register)
            /\ e.transfer = Rule(u.transfer, f.transfer)
            /\ e.optional = Rule(u.optional, f.optional)

-----------------------------------------------------------------------------
(* Properties of the decoder *)

\* the file catalog of the graph the parse returned
Catalog == adags[result].files

\* C8: the graph decoded from a document holds one file catalog entry per
\* name, however often the document declares the name, and every use of
\* the name is bound to that entry.
CatalogDeduplication ==
    result # 0 =>
        /\ \A i, j \in DOMAIN Catalog :
              i # j => files[Catalog[i]].name # files[Catalog[j]].name
        /\ \A n \in Held(result) : \A k \in DOMAIN nodes[n].used_files :
              \A i \in DOMAIN Catalog :
                  files[Catalog[i]].name
                      = files[nodes[n].used_files[k].file].name
                  => nodes[n].used_files[k].file = Catalog[i]

\* the uses element about to be delivered carries no link attribute and
\* names a file the table holds with link "input"
UsesDeclaredInput ==
    /\ Parsing
    /\ Head(input).ev = "start"
    /\ Head(input).name = "uses"
    /\ "link" \notin DOMAIN Head(input).attrs
    /\ handler.lastJob # 0
    /\ Get(Head(input).attrs, "name") \in DOMAIN handler.filemap
    /\ files[handler.filemap[Get(Head(input).attrs, "name")]].link
           = PyStr(Link_INPUT)

\* C9: a uses element without a link attribute that names a file declared
\* with link "input" gives the node a Use of that file whose own link is
\* unset and whose effective link is "input".
UseFallbackOnDecode ==
    [][UsesDeclaredInput =>
          LET j == handler.lastJob
              used == nodes'[j].used_files
              u == used[Len(used)]
          IN  /\ Len(used) = Len(nodes[j].used_files) + 1
              /\ u.file = handler.filemap[Get(Head(input).attrs, "name")]
              /\ u.link = None
              /\ Use_effective([files |-> files'], u).link
                     = PyStr(Link_INPUT)]_vars

\* a decoded graph whose node uses, with no link of its own, a file the
\* catalog holds with link "input"
UseFallbackWitness ==
    /\ result # 0
    /\ \E n \in Held(result) : \E k \in DOMAIN nodes[n].used_files :
          LET u == nodes[n].used_files[k]
          IN  /\ u.link = None
              /\ files[u.file].link = PyStr(Link_INPUT)
              /\ \E i \in DOMAIN Catalog : Catalog[i] = u.file

-----------------------------------------------------------------------------
(* Properties of the identifier allocator and of the encoder's purity *)

\* the state writeXML is given: everything but the sinks and the error
model == <<files, nodes, xforms, profiles, metadata, pfns, deps, adags,
           handler, admitted>>

\* C3: writeXML changes nothing observable of the graph or of anything it
\* references, and a second writeXML of the same graph, with no call in
\* between, writes the document the first one wrote.
EncodePurity ==
    [][out' # NoDocs =>
          /\ UNCHANGED model
          /\ \A g \in DOMAIN out \cap DOMAIN out' : out'[g] = out[g]]_vars

\* both graphs written, the first holding two nodes and a dependency
EncodePurityWitness ==
    /\ DOMAIN out = {1, 2}
    /\ Len(adags[1].jobs) = 2
    /\ adags[1].dependencies # <<>>
    /\ err = NoErr

\* the ids the spec promises, in order of allocation
ExpectedIds ==
    <<"ID0000001", "ID0000002", "ID0000003", "ID0000004", "ID0000005",
      "ID0000006", "ID0000007", "ID0000008", "ID0000009", "ID0000010">>

\* how many of the first i admissions to g found the id unset
Allocations(g, i) == Cardinality({j \in 1..i : admitted[g][j]})

\* C4: in every graph, the k-th node admitted with its id unset carries
\* the id "ID" followed by k in decimal, zero-padded to seven digits.
IdAllocationDeterminism ==
    \A g \in DOMAIN adags : \A i \in DOMAIN admitted[g] :
        admitted[g][i] =>
            nodes[adags[g].jobs[i]].id = PyStr(ExpectedIds[Allocations(g, i)])

\* two nodes of different classes admitted without id to the same graph
IdAllocationWitness ==
    \E g \in DOMAIN adags :
        /\ admitted[g] = <<TRUE, TRUE>>
        /\ nodes[adags[g].jobs[1]].cls # nodes[adags[g].jobs[2]].cls
        /\ nodes[adags[g].jobs[2]].id = PyStr("ID0000002")

\* C5: admitting a node whose id is set changes neither the graph's
\* counter nor the id; admitting a node whose id is unset advances the
\* counter by exactly one; nothing else moves the counter.
IdCounterDiscipline ==
    [][\A g \in DOMAIN adags :
          LET admits == Len(adags'[g].jobs) = Len(adags[g].jobs) + 1
              n == adags'[g].jobs[Len(adags'[g].jobs)]
          IN  /\ admits /\ nodes[n].id # None =>
                    /\ adags'[g].sequence = adags[g].sequence
                    /\ nodes'[n].id = nodes[n].id
              /\ admits /\ nodes[n].id = None =>
                    adags'[g].sequence = adags[g].sequence + 1
              /\ adags'[g].sequence # adags[g].sequence =>
                    admits /\ nodes[n].id = None]_vars

\* a graph that admitted a node with an id and then one without
IdCounterWitness ==
    \E g \in DOMAIN adags :
        /\ admitted[g] = <<FALSE, TRUE>>
        /\ adags[g].sequence = InitialSequence + 1

\* C6: no two distinct nodes held by one graph share an id.
IdUniqueness ==
    \A g \in DOMAIN adags : \A i, j \in DOMAIN adags[g].jobs :
        adags[g].jobs[i] # adags[g].jobs[j] =>
            nodes[adags[g].jobs[i]].id # nodes[adags[g].jobs[j]].id

\* C7: once a node's id is set, no operation changes it.
IdStability ==
    [][\A n \in DOMAIN nodes :
          nodes[n].id # None => nodes'[n].id = nodes[n].id]_vars

\* a node admitted to both graphs, made a dependency's child, and written
IdStabilityWitness ==
    \E n \in DOMAIN nodes :
        /\ \A g \in DOMAIN adags : adags[g].jobs = <<n>>
        /\ n \in DOMAIN adags[1].lookup
        /\ DOMAIN out = {1, 2}
        /\ nodes[n].id # None

-----------------------------------------------------------------------------
(* Specification of uses: the caller holds a graph, a file and an          *)
(* executable; it constructs sub-workflow nodes (from a name or from the   *)
(* file), a transformation from the executable, adds uses with and without *)
(* overrides, adds them to the graph, writes it and parses what was        *)
(* written.  A run is about nodes or about a transformation, not both.     *)
(* Nothing here has character content, so the parser has no characters     *)
(* callback to deliver.                                                    *)

NewTransformationCall(name) ==
    /\ Idle
    /\ Len(xforms) < MaxFiles
    /\ Commit(Transformation_init(World, name, None, None))
    /\ ApiFrame

TransformationUsesCall(t, f, link, register) ==
    /\ Idle
    /\ Len(xforms[t].used_files) <= MaxUses
    /\ Commit(Transformation_uses(World, t, f, link, register, None, None))
    /\ ApiFrame

AddTransformationCall(g, t) ==
    /\ Idle
    /\ Commit(addTransformation(World, g, t))
    /\ ApiFrame

\* File("f.a", link=Link.INPUT, register=True) and
\* Executable(namespace="diamond", name="preprocess") as test() and
\* diamond() construct them
InitUse ==
    Start(Executable_init(
              File_init(ADAG_init(Empty, PyStr("diamond"), None, None),
                        PyStr("f.a"), PyStr(Link_INPUT), True, False, None),
              PyStr("preprocess"), PyStr(Link_INPUT), False, True, None,
              PyStr("diamond"), None, NoPlatform), <<>>)

\* the names a sub-workflow node is constructed from
SubWorkflowNames == {PyStr("n"), Obj("File", 1)}

NextUse ==
    \/ \E name \in SubWorkflowNames :
           /\ Building /\ adags[1].jobs = <<>> /\ Len(nodes) < MaxJobs
           /\ xforms = <<>>
           /\ KindOf(Len(nodes) + 2) = "Job" => name = PyStr("n")
           /\ NewNodeCall(KindOf(Len(nodes) + 2), name, None)
    \/ \E n \in DOMAIN nodes : \E o \in UseOverrides :
           /\ Building /\ adags[1].jobs = <<>>
           /\ UsesCall(n, 1, o[1], o[2])
    \/ /\ Building /\ adags[1].transformations = <<>> /\ nodes = <<>>
       /\ NewTransformationCall(Obj("Executable", 2))
    \/ \E t \in DOMAIN xforms : \E o \in UseOverrides :
           /\ Building /\ adags[1].transformations = <<>>
           /\ TransformationUsesCall(t, 2, o[1], o[2])
    \/ \E n \in DOMAIN nodes :
           /\ Building /\ NextToAdmit(n) /\ AddDAXCall(1, n)
    \/ \E n \in DOMAIN nodes :
           /\ Building /\ NextToAdmit(n) /\ AddDAGCall(1, n)
    \/ Building /\ adags[1].files = <<>> /\ AddFileCall(1, 1)
    \/ \E t \in DOMAIN xforms :
           /\ Building /\ adags[1].transformations = <<>>
           /\ AddTransformationCall(1, t)
    \/ \E g \in {1, result} \cap DOMAIN adags : WriteXMLCall(g)
    \/ Building /\ ParseStringCall(1)
    \/ StartElementCall
    \/ EndElementCall
    \/ ParseReturn

SpecUse == InitUse /\ [][NextUse]_vars

\* the attributes of a catalog entry that a Use may override
Defaults(e) == <<e.link, e.register, e.transfer, e.optional>>

\* C11: overrides never write back.  No step (a uses on a node or on a
\* transformation, the implicit Use of a DAX, DAG or Transformation
\* constructor, a decoded uses element, writeXML) changes the link,
\* register, transfer or optional attribute of a catalog entry that
\* existed before the step.
OverridesNeverWriteBack ==
    [][\A f \in DOMAIN files :
          /\ f \in DOMAIN files'
          /\ Defaults(files'[f]) = Defaults(files[f])]_vars

\* some Use overrides the link of its entry, on a node the caller built and
\* on a node the decoder built from the document written
OverridesNeverWriteBackWitness ==
    /\ result # 0
    /\ out # NoDocs
    /\ \E n \in Held(1), m \in Held(result) :
           /\ \E i \in DOMAIN nodes[n].used_files :
                  LET u == nodes[n].used_files[i]
                  IN  u.link # None /\ u.link # files[u.file].link
           /\ \E i \in DOMAIN nodes[m].used_files :
                  LET u == nodes[m].used_files[i]
                  IN  /\ u.link # None /\ u.link # files[u.file].link
                      /\ u.file \in {adags[result].files[k] :
                                        k \in DOMAIN adags[result].files}

\* the uses elements in the encoding of the node constructed last
UsesOfNewest ==
    SelectSeq(AbstractJob_toXML(World, Len(nodes)),
              LAMBDA e : e.ev = "start" /\ e.name = "uses")

\* C12: sub-workflow implicit use.  The step that constructs a DAX or DAG
\* from a file gives the node the file's name and exactly one Use, of that
\* file, and the encoding of the node has exactly one uses element, for
\* that file, with link input, transfer true and register false (written,
\* or left out as the default it is).
SubWorkflowImplicitUse ==
    [][(/\ Idle /\ Building
        /\ Len(nodes') = Len(nodes) + 1
        /\ nodes'[Len(nodes')].name = files[1].name)
       => /\ nodes'[Len(nodes')].cls \in {"DAX", "DAG"}
          /\ Len(nodes'[Len(nodes')].used_files) = 1
          /\ nodes'[Len(nodes')].used_files[1].file = 1
          /\ Len(UsesOfNewest') = 1
          /\ LET a == UsesOfNewest'[1].attrs
             IN  /\ a["name"] = Unicode(files[1].name)
                 /\ "link" \in DOMAIN a /\ a["link"] = Link_INPUT
                 /\ "transfer" \in DOMAIN a /\ a["transfer"] = "true"
                 /\ "register" \in DOMAIN a => a["register"] = "false"]_vars

-----------------------------------------------------------------------------
(* Specification of the diamond: the caller holds the graph of diamond()   *)
(* with its four jobs (preprocess, two findrange, analyze) and calls       *)
(* addDependency for edges of the diamond, in any order and any number of  *)
(* times up to MaxEdges; it writes the graph, parses what was written and  *)
(* writes the graph returned.  The second findrange job has the id that    *)
(* addJob allocates, or the id the first findrange job already has.        *)

MaxEdges == 4       \* addDependency calls on the diamond

\* (parent, child) as diamond() passes them: jobs 1..4 are preprocess,
\* findrange left, findrange right, analyze
DiamondEdges == {<<1, 2>>, <<1, 3>>, <<2, 4>>, <<3, 4>>}

\* the ids the caller gives the second findrange job
SharedIds == {None, PyStr("ID0000002")}

DiamondJobs(id) ==
    LET W0 == ADAG_init(Empty, PyStr("diamond"), None, None)
        W1 == addJob(Job_init(W0, PyStr("preprocess"), None,
                              PyStr("diamond"), PyStr("4.0"), None), 1, 1)
        W2 == addJob(Job_init(W1, PyStr("findrange"), None,
                              PyStr("diamond"), PyStr("4.0"), None), 1, 2)
        W3 == addJob(Job_init(W2, PyStr("findrange"), id,
                              PyStr("diamond"), PyStr("4.0"), None), 1, 3)
    IN  addJob(Job_init(W3, PyStr("analyze"), None,
                        PyStr("diamond"), PyStr("4.0"), None), 1, 4)

InitDiamond == \E id \in SharedIds : Start(DiamondJobs(id), <<>>)

\* the (parent, edge label) pairs graph g records for child c, in order
ParentsOf(g, c) ==
    IF c \in DOMAIN adags[g].lookup THEN deps[adags[g].lookup[c]].parents
    ELSE <<>>

\* the addDependency calls graph g has taken
Edges(g) ==
    Sum([i \in DOMAIN adags[g].dependencies |->
            Len(deps[adags[g].dependencies[i]].parents)])

AddEdgeCall(parent, child) ==
    /\ Idle
    /\ Edges(1) < MaxEdges
    /\ Commit(addDependency(World, 1, parent, child, None))
    /\ ApiFrame

NextDiamond ==
    \/ \E e \in DiamondEdges : Building /\ AddEdgeCall(e[1], e[2])
    \/ \E l \in EdgeLabels \ {None} :
           Building /\ AddDependencyCall(1, 3, 4, l)
    \/ \E g \in {1, result} \cap DOMAIN adags : WriteXMLCall(g)
    \/ Building /\ ParseStringCall(1)
    \/ StartElementCall
    \/ EndElementCall
    \/ ParseReturn

SpecDiamond == InitDiamond /\ [][NextDiamond]_vars

\* graph 1 is the diamond: each of its four edges was added once, and the
\* four jobs have four ids
IsDiamond ==
    /\ \A e \in DiamondEdges :
           Len(SelectSeq(ParentsOf(1, e[2]), LAMBDA p : p[1] = e[1])) = 1
    /\ Edges(1) = Cardinality(DiamondEdges)
    /\ \A i, j \in DOMAIN nodes :
           (i <= 4 /\ j <= 4 /\ nodes[i].id = nodes[j].id) => i = j

\* C13: dependency shape.  In the graph decoded from the encoding of the
\* diamond, analyze has exactly the two parents findrange left and
\* findrange right, each findrange has exactly the one parent preprocess,
\* and preprocess has no dependency record.
DependencyShape ==
    (result # 0 /\ IsDiamond) =>
        LET D == adags[result].jobs
            P(c) == [i \in DOMAIN ParentsOf(result, c) |->
                        ParentsOf(result, c)[i][1]]
        IN  /\ Len(D) = 4
            /\ Len(P(D[4])) = 2 /\ {P(D[4])[1], P(D[4])[2]} = {D[2], D[3]}
            /\ P(D[2]) = <<D[1]>>
            /\ P(D[3]) = <<D[1]>>
            /\ D[1] \notin DOMAIN adags[result].lookup
            /\ \A i \in DOMAIN adags[result].dependencies :
                   deps[adags[result].dependencies[i]].child # D[1]
            /\ Len(adags[result].dependencies) = 3

\* the diamond was written and decoded, its edges added in the order of
\* diamond()
DependencyShapeWitness ==
    /\ result # 0
    /\ IsDiamond
    /\ adags[1].dependencies = <<1, 2, 3>>
    /\ ParentsOf(1, 4) = <<<<2, None>>, <<3, None>>>>
    /\ Len(ParentsOf(result, adags[result].jobs[4])) = 2

\* the Dependency Index of graph g is sound: one record per child, each
\* filed under its child, and the list holds the records of the table
IndexSound(g) ==
    LET L == adags[g].dependencies
        T == adags[g].lookup
    IN  /\ \A i, j \in DOMAIN L :
               (L[i] = L[j] \/ deps[L[i]].child = deps[L[j]].child) => i = j
        /\ {L[i] : i \in DOMAIN L} = {T[c] : c \in DOMAIN T}
        /\ \A c \in DOMAIN T : deps[T[c]].child = c

\* C14: Dependency Index invariant.  After every step the index of every
\* graph is sound (at most one record per child node, the key being the
\* node and not its id; table and list hold the same records), and a step
\* that adds a parent for a child that has a record appends it to that
\* record and adds no record.
DependencyIndexInvariant ==
    [][\A g \in DOMAIN adags' :
          /\ IndexSound(g)'
          /\ \A c \in DOMAIN nodes :
                 (/\ g \in DOMAIN adags
                  /\ c \in DOMAIN adags[g].lookup
                  /\ Edges(g)' = Edges(g) + 1
                  /\ Len(ParentsOf(g, c)') # Len(ParentsOf(g, c)))
                 => /\ SubSeq(ParentsOf(g, c)', 1, Len(ParentsOf(g, c)))
                        = ParentsOf(g, c)
                    /\ Len(ParentsOf(g, c)') = Len(ParentsOf(g, c)) + 1
                    /\ adags'[g].dependencies = adags[g].dependencies
                    /\ adags'[g].lookup = adags[g].lookup]_vars

\* two children with one id string have a record each, and a child given
\* two parents has them in one record
DependencyIndexWitness ==
    /\ nodes[2].id = nodes[3].id
    /\ {2, 3} \subseteq DOMAIN adags[1].lookup
    /\ adags[1].lookup[2] # adags[1].lookup[3]
    /\ Len(ParentsOf(1, 4)) = 2
    /\ result # 0
    /\ \E c \in DOMAIN adags[result].lookup : Len(ParentsOf(result, c)) >= 2

-----------------------------------------------------------------------------
(* Specification of decode failures: the parser delivers documents that    *)
(* are well formed XML but break the structure of a DAX (an unknown        *)
(* element, an element under the wrong parent, a child or parent whose ref *)
(* names no node or a node defined later, a missing name), and documents   *)
(* that do not; the caller writes the graph a parse returns.               *)

\* <job id=... name="n"/>
JobDecl(id) == Element("job", ("id" :> id) @@ ("name" :> "n"), <<>>)

\* <child ref=c> <parent ref=p/> </child>
ChildDecl(c, p) ==
    Element("child", "ref" :> c, Element("parent", "ref" :> p, <<>>))

\* <adag name="diamond"> inner </adag>
AdagDoc(inner) == Element("adag", "name" :> "diamond", inner)

\* the refs of the documents: two ids that jobs carry, one that none does
Refs == {"ID0000001", "ID0000002", "ID0000003"}

ErrDocs ==
    \* two jobs, then a dependency with resolved or unresolved refs
    {AdagDoc(JobDecl("ID0000001") \o JobDecl("ID0000002")
             \o ChildDecl(c, p)) : c, p \in Refs}
    \* a dependency on nodes defined only later in the document
    \cup {AdagDoc(ChildDecl("ID0000002", "ID0000001")
                  \o JobDecl("ID0000001") \o JobDecl("ID0000002")),
          AdagDoc(JobDecl("ID0000002")
                  \o ChildDecl("ID0000002", "ID0000001")
                  \o JobDecl("ID0000001"))}
    \* an element outside the vocabulary
    \cup {AdagDoc(Element("bogus", EmptyDict, <<>>)),
          AdagDoc(JobDecl("ID0000001") \o Element("bogus", EmptyDict, <<>>)),
          Element("bogus", EmptyDict, <<>>)}
    \* an element under a parent that does not take it
    \cup {AdagDoc(JobDecl("ID0000001")
                  \o Element("parent", "ref" :> "ID0000001", <<>>)),
          AdagDoc(Element("job", ("id" :> "ID0000001") @@ ("name" :> "n"),
                          Element("file", "name" :> "f.a", <<>>))),
          AdagDoc(Element("profile",
                          ("namespace" :> "test") @@ ("key" :> "k"),
                          <<CharsEv(Chars("v"))>>)),
          AdagDoc(Element("pfn", "url" :> "u", <<>>)),
          AdagDoc(Element("uses", "name" :> "f.a", <<>>))}
    \* a missing name
    \cup {AdagDoc(Element("job", "id" :> "ID0000001", <<>>)),
          AdagDoc(Element("file", "link" :> Link_INPUT, <<>>))}
    \* a job with an argument
    \cup {AdagDoc(Element("job", ("id" :> "ID0000001") @@ ("name" :> "n"),
                          Element("argument", EmptyDict,
                                  <<CharsEv(Chars("-a"))>>)))}
    \* a job without id, and a dependency on the id the graph gives it
    \cup {AdagDoc(Element("job", "name" :> "n", <<>>)
                  \o JobDecl("ID0000002")
                  \o ChildDecl("ID0000002", "ID0000001"))}

InitErr == \E doc \in ErrDocs : Start(Empty, doc)

NextErr ==
    \/ StartElementCall
    \/ CharactersCall
    \/ EndElementCall
    \/ ParseReturn
    \/ result # 0 /\ WriteXMLCall(result)

SpecErr == InitErr /\ [][NextErr]_vars

\* the element names startElement has a branch for
KnownElements ==
    {"adag", "file", "executable", "transformation", "job", "dag", "dax",
     "argument", "profile", "metadata", "pfn", "stdin", "stdout", "stderr",
     "uses", "invoke", "child", "parent"}

\* C15: unrecognized element.  A parse that meets an element outside the
\* vocabulary stops there with the unrecognized-element error (the
\* Exception that startElement's last branch constructs), and returns no
\* graph.
UnrecognizedElement ==
    (input # <<>> /\ Head(input).ev = "start"
     /\ Head(input).name \notin KnownElements /\ ~Parsing)
    => (err = "Exception" /\ result = 0)

\* the start tag the parser is about to deliver, and the element open
\* around it
AtStart == Parsing /\ Head(input).ev = "start"
Enclosing ==
    IF handler.elements = <<>> THEN NoParent ELSE Head(handler.elements)

\* the parents an element requires: the ones startElement tests for, and
\* child for parent, whose dependency is recorded against the child
RequiredParents ==
    [file |-> {"adag", "argument"},
     profile |-> {"job", "dag", "dax", "file", "executable", "pfn"},
     metadata |-> {"file", "executable", "transformation", "job"},
     pfn |-> {"file", "executable"},
     uses |-> {"job", "dag", "dax", "transformation"},
     parent |-> {"child"}]

\* the ref of the child or parent tag about to be delivered names no node
\* of the id table
UnresolvedRef ==
    /\ AtStart
    /\ Head(input).name \in {"child", "parent"}
    /\ Get(Head(input).attrs, "ref") \notin DOMAIN handler.jobmap

\* the start tag about to be delivered is a structural error
StructuralError ==
    /\ AtStart
    /\ \/ Head(input).name \notin KnownElements
       \/ /\ Head(input).name \in DOMAIN RequiredParents
          /\ Enclosing \notin RequiredParents[Head(input).name]
       \/ UnresolvedRef
       \/ /\ Head(input).name \in {"file", "job", "dag", "dax", "uses"}
          /\ "name" \notin DOMAIN Head(input).attrs

\* the callback raised: the event stays undelivered, no graph is returned
\* and the graphs and dependencies are what they were
Aborted ==
    /\ err' # NoErr
    /\ input' = input
    /\ result' = 0
    /\ adags' = adags
    /\ deps' = deps

\* C16: fail-fast decode.  The callback for a start tag that is a
\* structural error (unknown element, element under a parent that does
\* not accept it, unresolved ref, missing name) raises; the parse then
\* delivers nothing more and returns no graph.
FailFastDecode ==
    [][StructuralError => (Aborted /\ ~(ENABLED NextErr)')]_vars

\* C17: unresolved dependency reference.  The callback for a child or
\* parent tag whose ref is no key of the id table raises, and leaves no
\* dependency recorded, no pending child set and no graph returned.
UnresolvedReference ==
    [][UnresolvedRef =>
          (Aborted /\ handler'.lastChild = handler.lastChild)]_vars

\* the parse stopped with a KeyError at a parent tag whose ref names a job
\* the document defines only later, and at a child tag with an unknown ref
UnresolvedReferenceWitness ==
    /\ err = "KeyError"
    /\ input # <<>>
    /\ Head(input).ev = "start"
    /\ Head(input).name \in {"child", "parent"}
    /\ Get(Head(input).attrs, "ref") \notin DOMAIN handler.jobmap
    /\ \/ /\ Head(input).name = "parent"
          /\ \E i \in DOMAIN input :
                 /\ input[i].ev = "start" /\ input[i].name = "job"
                 /\ input[i].attrs["id"] = Head(input).attrs["ref"]
       \/ /\ Head(input).name = "child"
          /\ Head(input).attrs["ref"] = "ID0000003"
    /\ deps = <<>>
    /\ result = 0

-----------------------------------------------------------------------------
(* Properties of the encoder on the graphs of the round trip *)

\* C18: encode never fails.  A writeXML call (the step of an idle caller
\* that leaves every object, the input and the result as they are) on a
\* graph built through the API or returned by the decoder does not raise.
EncodeNeverFails ==
    [][(Idle /\ model' = model /\ UNCHANGED <<handler, input, result>>)
       => err' = NoErr]_vars

-----------------------------------------------------------------------------
(* Specification of the entity model: the caller holds a Profile, a        *)
(* Metadata and a PFN; it constructs a catalog entry or nodes, with a      *)
(* name, an empty name or none, and calls addProfile, addMetadata and      *)
(* addPFN on what it holds with a typed value, a tuple or something else.  *)
(* A run is about a catalog entry or about nodes, not both.                *)

MaxItems == 1       \* elements added to profiles, metadata and pfns lists

\* the names a caller constructs an entity with
Names == {None, PyStr(""), PyStr("f.a")}

\* what a caller passes to addProfile, addMetadata, addPFN: the typed
\* values it holds, the tuples test() passes, a string
Shorthands ==
    {Obj("Profile", 1), Obj("Metadata", 1), Obj("PFN", 1),
     Tuple(<<PyStr("test"), PyStr("pre"), PyStr("process")>>),
     Tuple(<<PyStr("http://www.google.com"), PyStr("google")>>),
     PyStr("x")}

\* Profile(namespace="test", key="bar", value="baz"),
\* Metadata(key="size", type="int", value="1024") and
\* PFN(url="http://site.com/f.a", site="site.com") of test()
InitEntity ==
    Start(PFN_init(
              Metadata_init(
                  Profile_init(Empty, PyStr("test"), PyStr("bar"),
                               PyStr("baz")),
                  PyStr("size"), PyStr("int"), PyStr("1024")),
              PyStr("http://site.com/f.a"), PyStr("site.com")), <<>>)

\* the elements of all profiles, metadata and pfns lists
Items ==
    Sum([f \in DOMAIN files |-> Len(files[f].profiles)
            + Len(files[f].metadata) + Len(files[f].pfns)])
    + Sum([n \in DOMAIN nodes |-> Len(nodes[n].profiles)])
    + Sum([p \in DOMAIN pfns |-> Len(pfns[p].profiles)])

NewExecutableCall(name) ==
    /\ Idle
    /\ Len(files) < MaxFiles
    /\ Commit(Executable_init(World, name, PyStr(Link_INPUT), False, True,
                              None, None, None, NoPlatform))
    /\ ApiFrame

AddProfileCall(f, profile) ==
    /\ Idle
    /\ Items < MaxItems
    /\ Commit(CatalogType_addProfile(World, f, profile))
    /\ ApiFrame

AddMetadataCall(f, meta) ==
    /\ Idle
    /\ Items < MaxItems
    /\ Commit(CatalogType_addMetadata(World, f, meta))
    /\ ApiFrame

AddPFNCall(f, pfn) ==
    /\ Idle
    /\ Items < MaxItems
    /\ Commit(CatalogType_addPFN(World, f, pfn))
    /\ ApiFrame

NodeAddProfileCall(n, profile) ==
    /\ Idle
    /\ Items < MaxItems
    /\ Commit(AbstractJob_addProfile(World, n, profile))
    /\ ApiFrame

PFNAddProfileCall(p, profile) ==
    /\ Idle
    /\ Items < MaxItems
    /\ Commit(PFN_addProfile(World, p, <<profile>>))
    /\ ApiFrame

NextEntity ==
    \/ \E name \in Names : nodes = <<>> /\ NewFileCall(name, None, False)
    \/ \E name \in Names : nodes = <<>> /\ NewExecutableCall(name)
    \/ \E name \in Names :
           files = <<>> /\ NewNodeCall(KindOf(Len(nodes) + 1), name, None)
    \/ \E f \in DOMAIN files : \E v \in Shorthands : AddProfileCall(f, v)
    \/ \E f \in DOMAIN files : \E v \in Shorthands : AddMetadataCall(f, v)
    \/ \E f \in DOMAIN files : \E v \in Shorthands : AddPFNCall(f, v)
    \/ \E n \in DOMAIN nodes : \E v \in Shorthands : NodeAddProfileCall(n, v)
    \/ \E p \in DOMAIN pfns : \E v \in Shorthands : PFNAddProfileCall(p, v)

SpecEntity == InitEntity /\ [][NextEntity]_vars

\* C19: constructor validation.  No catalog entry and no node exists whose
\* name is missing or empty: a constructor given such a name raises and
\* builds nothing.
ConstructorValidation ==
    /\ \A f \in DOMAIN files : Truthy(files[f].name)
    /\ \A n \in DOMAIN nodes : Truthy(nodes[n].name)

\* list L became list M by at most one element, of class cls, appended by
\* a call that returned
Normalized(L, M, cls) ==
    \/ M = L
    \/ /\ M = Append(L, M[Len(M)])
       /\ IsObj(M[Len(M)], cls)
       /\ err' = NoErr

\* C20: shorthand normalization.  A step leaves each profiles, metadata
\* and pfns list as it was or appends exactly one element of the typed
\* form to it, and a call that raises leaves every list as it was; so the
\* lists (empty at construction) hold typed elements only.
ShorthandNormalization ==
    [][/\ \A f \in DOMAIN files :
              /\ Normalized(files[f].profiles, files'[f].profiles, "Profile")
              /\ Normalized(files[f].metadata, files'[f].metadata, "Metadata")
              /\ Normalized(files[f].pfns, files'[f].pfns, "PFN")
       /\ \A n \in DOMAIN nodes :
              Normalized(nodes[n].profiles, nodes'[n].profiles, "Profile")
       /\ \A p \in DOMAIN pfns :
              Normalized(pfns[p].profiles, pfns'[p].profiles, "Profile")
       /\ err' # NoErr => Items' = Items]_vars

-----------------------------------------------------------------------------
(* Properties of repeated declarations *)

\* the top-level file element about to be delivered repeats a name of the
\* name table
RepeatedFile ==
    /\ Parsing
    /\ Head(input).ev = "start"
    /\ Head(input).name = "file"
    /\ handler.elements # <<>> /\ Head(handler.elements) = "adag"
    /\ Get(Head(input).attrs, "name") \in DOMAIN handler.filemap

\* C21: first definition wins.  A top-level file element that repeats a
\* name of the name table constructs nothing and leaves every entity, the
\* one of that name included, and the name table as they were, whatever
\* link the element carries.
FirstDefinitionWins ==
    [][RepeatedFile =>
          /\ files' = files
          /\ handler'.filemap = handler.filemap
          /\ err' = NoErr]_vars

\* a repeated declaration that carries link="input" for an entity first
\* declared without link: the delivery succeeds, lists the entity a second
\* time and leaves it without link
FirstDefinitionWinsWitness ==
    /\ RepeatedFile
    /\ Get(Head(input).attrs, "link") = PyStr(Link_INPUT)
    /\ files[handler.filemap[Get(Head(input).attrs, "name")]].link = None
    /\ LET W == startElement(World, "file", Head(input).attrs)
       IN  /\ ~Failed(W)
           /\ W.files = files
           /\ Len(W.adags[handler.adag].files) = 2

-----------------------------------------------------------------------------
(* SpecCtx: the decoder on declarations in every context.  The documents   *)
(* place a profile, a metadata and a uses element under each parent an    *)
(* element can be open in, let the uses element name a known or an unknown *)
(* entity with each form of the executable flag, and declare an executable *)
(* whose name the name table may already hold; the caller writes the      *)
(* graph a parse returns.                                                 *)

\* the elements a declaration can be placed under
Parents ==
    {"adag", "job", "dag", "dax", "file", "executable", "pfn",
     "transformation", "argument"}

\* inner as the content of an element of kind parent
Under(parent, inner) ==
    CASE parent = "adag" -> inner
      [] parent \in {"job", "dag", "dax"} ->
             Element(parent, ("id" :> "ID0000001") @@ ("name" :> "n"), inner)
      [] parent = "file" -> Element("file", "name" :> "f.a", inner)
      [] parent = "executable" ->
             Element("executable", "name" :> "preprocess", inner)
      [] parent = "pfn" ->
             Element("file", "name" :> "f.a",
                     Element("pfn", ("url" :> "u") @@ ("site" :> "local"),
                             inner))
      [] parent = "transformation" ->
             Element("transformation", "name" :> "t", inner)
      [] parent = "argument" ->
             Element("job", ("id" :> "ID0000001") @@ ("name" :> "n"),
                     Element("argument", EmptyDict, inner))

\* <profile namespace="test" key="k">v</profile>, <metadata key="k"
\* type="string">v</metadata>
ProfileDecl ==
    Element("profile", ("namespace" :> "test") @@ ("key" :> "k"),
            <<CharsEv(Chars("v"))>>)
MetadataDecl ==
    Element("metadata", ("key" :> "k") @@ ("type" :> "string"),
            <<CharsEv(Chars("v"))>>)

\* the forms of the executable flag of a uses element (absent, empty,
\* "false", "true"), with or without a link override
ExecutableFlags ==
    {EmptyDict} \cup {"executable" :> v : v \in {"", "false", "true"}}
UsesAttrs ==
    {("name" :> "x") @@ flag @@ over :
         flag \in ExecutableFlags,
         over \in {EmptyDict, "link" :> Link_OUTPUT}}

\* what a document declares under the name "x" ahead of its uses element
PriorDecls ==
    {<<>>, Element("file", "name" :> "x", <<>>),
     Element("executable", "name" :> "x", <<>>)}

\* <transformation name=t> <uses name="x" .../> </transformation>
XformUsing(t, flag) ==
    Element("transformation", "name" :> t,
            Element("uses", ("name" :> "x") @@ flag, <<>>))

CtxDocs ==
    \* a profile or a metadata element under each parent
    {AdagDoc(Under(parent, decl)) :
         parent \in Parents, decl \in {ProfileDecl, MetadataDecl}}
    \* a uses element under each parent, its name declared before or not
    \cup {AdagDoc(prior \o Under(parent, Element("uses", attrs, <<>>))) :
              prior \in PriorDecls, parent \in Parents, attrs \in UsesAttrs}
    \* an executable element, its name bound before or not, and a Use of
    \* the name after it
    \cup {AdagDoc(prior \o Element("executable", "name" :> "x", <<>>)
                  \o XformUsing("t2", EmptyDict)) :
              prior \in PriorDecls
                        \cup {XformUsing("t", "executable" :> "true")}}

InitCtx == \E doc \in CtxDocs : Start(Empty, doc)

SpecCtx == InitCtx /\ [][NextErr]_vars

\* the executable element about to be delivered is a direct child of the
\* graph element and its name is in the name table
KnownExecutable ==
    /\ AtStart
    /\ Head(input).name = "executable"
    /\ Enclosing = "adag"
    /\ Get(Head(input).attrs, "name") \in DOMAIN handler.filemap

\* C22: executable lookup on decode.  An executable element directly under
\* the graph element whose name is in the name table constructs no entity
\* and leaves the entry of the name table as it was, so that Uses bound to
\* the name before and after it refer to one entity.
ExecutableLookup ==
    [][KnownExecutable =>
          /\ Len(files') = Len(files)
          /\ handler'.filemap = handler.filemap]_vars

\* the object the decoder has just constructed and attached
NewestProfile == Obj("Profile", Len(profiles'))
NewestMetadata == Obj("Metadata", Len(metadata'))

\* C23: profile context.  A profile element whose innermost open parent is
\* job, dag or dax is accepted and attached to the current node, under file
\* or executable to the current catalog entry, under pfn to the current
\* physical location; under any other parent the callback raises the
\* context error.
ProfileContext ==
    [][(AtStart /\ Head(input).name = "profile") =>
          IF Enclosing \in {"job", "dag", "dax"}
          THEN /\ err' = NoErr
               /\ nodes'[handler.lastJob].profiles =
                      Append(nodes[handler.lastJob].profiles, NewestProfile)
          ELSE IF Enclosing \in {"file", "executable"}
          THEN /\ err' = NoErr
               /\ files'[handler.lastFile].profiles =
                      Append(files[handler.lastFile].profiles, NewestProfile)
          ELSE IF Enclosing = "pfn"
          THEN /\ err' = NoErr
               /\ pfns'[handler.lastPFN].profiles =
                      Append(pfns[handler.lastPFN].profiles, NewestProfile)
          ELSE err' = "Exception"]_vars

\* C24: metadata context.  A metadata element whose innermost open parent
\* is file, executable, transformation or job is accepted, and one Metadata
\* with the element's key and type, its value to be accumulated from the
\* text, is constructed and attached: under file or executable to the
\* current catalog entry, under transformation or job to the current
\* transformation or node; under any other parent the callback raises the
\* context error.
MetadataContext ==
    [][(AtStart /\ Head(input).name = "metadata") =>
          IF Enclosing \in {"file", "executable", "transformation", "job"}
          THEN /\ err' = NoErr
               /\ Len(metadata') = Len(metadata) + 1
               /\ metadata'[Len(metadata')].key = Get(Head(input).attrs, "key")
               /\ metadata'[Len(metadata')].type =
                      Get(Head(input).attrs, "type")
               /\ Enclosing \in {"file", "executable"} =>
                      files'[handler.lastFile].metadata =
                          Append(files[handler.lastFile].metadata,
                                 NewestMetadata)
          ELSE err' = "Exception"]_vars

\* a uses element that names an entity is about to be delivered
UsesElement ==
    /\ AtStart
    /\ Head(input).name = "uses"
    /\ "name" \in DOMAIN Head(input).attrs

\* what the delivery of that element does when executable tells whether an
\* unknown name becomes an Executable: the name is resolved through the
\* name table, and one Use of the entity with the element's overrides is
\* appended under job, dag, dax or transformation
UsesOutcome(executable) ==
    LET attrs == Head(input).attrs
        name  == Get(attrs, "name")
        known == name \in DOMAIN handler.filemap
        f     == IF known THEN handler.filemap[name] ELSE Len(files) + 1
        use   == Use_init(f, Get(attrs, "link"), Get(attrs, "register"),
                          Get(attrs, "transfer"), Get(attrs, "optional"))
    IN  /\ IF known
           THEN files' = files /\ handler'.filemap = handler.filemap
           ELSE /\ Len(files') = Len(files) + 1
                /\ files'[f].cls = IF executable THEN "Executable" ELSE "File"
                /\ files'[f].name = name
                /\ handler'.filemap = DictPut(handler.filemap, name, f)
        /\ IF Enclosing \in {"job", "dag", "dax"}
           THEN /\ err' = NoErr
                /\ nodes'[handler.lastJob].used_files =
                       Append(nodes[handler.lastJob].used_files, use)
           ELSE IF Enclosing = "transformation"
           THEN /\ err' = NoErr
                /\ xforms'[handler.lastTransformation].used_files =
                       Append(xforms[handler.lastTransformation].used_files,
                              use)
           ELSE err' = "Exception"

\* C25: uses resolution and context, as stated: an unknown name becomes an
\* Executable when the executable attribute is present, else a File.
UsesContextAsStated ==
    [][UsesElement =>
          UsesOutcome("executable" \in DOMAIN Head(input).attrs)]_vars

\* C25: uses resolution and context.  A uses element reuses the entity the
\* name table holds for its name, and otherwise constructs an Executable
\* (when the executable attribute is present and not empty) or a File and
\* registers it; under job, dag, dax or transformation one Use with the
\* declared overrides is appended to the current node or transformation,
\* and under any other parent the callback raises the context error.
UsesContext ==
    [][UsesElement =>
          UsesOutcome(Truthy(Get(Head(input).attrs, "executable")))]_vars

\* a decoded graph whose transformation uses, with the declared link, the
\* one entity that a file element had declared before
UsesContextWitness ==
    /\ result # 0
    /\ Len(files) = 1 /\ files[1].cls = "File"
    /\ Len(xforms) = 1
    /\ xforms[1].used_files =
           <<Use_init(1, PyStr(Link_OUTPUT), None, None, None)>>

\* C26: the executable flag is a truthy string.  A uses element that names
\* an entity absent from the name table constructs an Executable for every
\* value of its executable attribute that is not empty, the text "false"
\* included, and a File only when the attribute is absent or empty.
ExecutableFlagTruthy ==
    [][(UsesElement
        /\ Get(Head(input).attrs, "name") \notin DOMAIN handler.filemap) =>
          /\ Len(files') = Len(files) + 1
          /\ files'[Len(files')].cls =
                 IF Get(Head(input).attrs, "executable")
                        \in {None, PyStr("")}
                 THEN "File" ELSE "Executable"]_vars

\* a uses element with executable="false" for an unknown name, under a job:
\* its delivery constructs an Executable
ExecutableFlagWitness ==
    /\ UsesElement
    /\ Enclosing = "job"
    /\ Get(Head(input).attrs, "executable") = PyStr("false")
    /\ Get(Head(input).attrs, "name") \notin DOMAIN handler.filemap
    /\ LET W == startElement(World, "uses", Head(input).attrs)
       IN  ~Failed(W) /\ W.files[Len(W.files)].cls = "Executable"

-----------------------------------------------------------------------------
(* Properties of the parent lists *)

\* C27: parents are append-only and not deduplicated.  In every state the
\* caller can call from, addDependency(parent, child, label) on any graph,
\* for any two nodes and any label, leaves the child's parent list as the
\* list before the call with the one pair (parent, label) appended at its
\* end - also when the list holds that parent already - and every other
\* parent list as it was; n calls with one parent and child thus leave n
\* pairs in call order.
ParentsAppendOnly ==
    Idle =>
        \A g \in DOMAIN adags : \A p, c \in DOMAIN nodes :
            \A l \in EdgeLabels :
                LET W == addDependency(World, g, p, c, l)
                    T == W.adags[g].lookup
                IN  /\ ~Failed(W)
                    /\ c \in DOMAIN T
                    /\ W.deps[T[c]].parents
                           = Append(ParentsOf(g, c), <<p, l>>)
                    /\ \A d \in DOMAIN deps :
                           d # T[c] => W.deps[d] = deps[d]

\* two calls with one parent and child and different labels have left two
\* pairs for the parent, in call order, and a third call adds a third
ParentsAppendOnlyWitness ==
    /\ Building
    /\ ParentsOf(1, 4) = <<<<3, PyStr("e")>>, <<3, None>>>>
    /\ LET W == addDependency(World, 1, 3, 4, PyStr("e"))
       IN  W.deps[W.adags[1].lookup[4]].parents
               = <<<<3, PyStr("e")>>, <<3, None>>, <<3, PyStr("e")>>>>

\* a written document stands complete in the sink
Written(g) ==
    /\ g \in DOMAIN out
    /\ out[g] # <<>>
    /\ out[g][Len(out[g])] = EndEv("adag")

\* the child and parent tags of a document, in document order
DependencyTags(doc) ==
    LET S == SelectSeq(doc, LAMBDA e :
                 e.ev = "start" /\ e.name \in {"child", "parent"})
    IN  [i \in DOMAIN S |-> <<S[i].name, S[i].attrs>>]

\* the tags of one record: its child, then its parents as appended
RecordTags(d) ==
    <<<<"child", "ref" :> nodes[deps[d].child].id[2]>>>>
    \o [i \in DOMAIN deps[d].parents |->
           <<"parent",
             ("ref" :> nodes[deps[d].parents[i][1]].id[2])
             @@ (IF deps[d].parents[i][2] = None THEN EmptyDict
                 ELSE "edge-label" :> deps[d].parents[i][2][2])>>]

\* C28: dependency emission order.  A written document holds one child
\* block per dependency record, in the order of the dependencies list (the
\* order in which the first addDependency call for each child created the
\* records), whatever the ids of the nodes and the order of the nodes in
\* the graph, and each block holds the record's parents in the order they
\* were appended.
DependencyEmissionOrder ==
    \A g \in DOMAIN out :
        Written(g) =>
            DependencyTags(out[g]) =
                Flatten([i \in DOMAIN adags[g].dependencies |->
                            RecordTags(adags[g].dependencies[i])])

\* the caller added 3 -> 4 (labelled) and 2 -> 4, then 1 -> 2: the document
\* has the block of node 4 before the block of node 2, and node 4's parents
\* as appended
DependencyEmissionWitness ==
    /\ Building
    /\ Written(1)
    /\ nodes[3].id = PyStr("ID0000003")
    /\ DependencyTags(out[1]) =
           << <<"child", "ref" :> "ID0000004">>,
              <<"parent", ("ref" :> "ID0000003") @@ ("edge-label" :> "e")>>,
              <<"parent", "ref" :> "ID0000002">>,
              <<"child", "ref" :> "ID0000002">>,
              <<"parent", "ref" :> "ID0000001">> >>

-----------------------------------------------------------------------------
(* SpecTest: the workflow of test().  The catalog entries, the            *)
(* transformation and the two nodes stand constructed; the caller fills   *)
(* the job - arguments, profiles, stdin, stdout, stderr, uses and         *)
(* notifications - in any order of calls, and adds the files, the         *)
(* executable, the transformation, the nodes and a dependency to the      *)
(* graph in the order of test().  The graph can be written at any point   *)
(* and, once the dependency is in, parsed back and written again.         *)

\* the length to which the caller fills each list of the job
MaxPerList == 2

\* File a with profile, metadata and a location that has a profile, File d,
\* Executable preprocess with profile and location, the files for the
\* standard streams, Transformation preprocess using both catalog entries,
\* Job preprocess and DAX post.xml
TestCatalog ==
    LET W0 == ADAG_init(Empty, PyStr("diamond"), None, None)
        W1 == File_init(W0, PyStr("f.a"), PyStr(Link_INPUT), False, True,
                        None)
        W2 == CatalogType_addProfile(
                  Profile_init(W1, PyStr("test"), PyStr("foo"), Chars("baz")),
                  1, Obj("Profile", 1))
        W3 == CatalogType_addMetadata(
                  Metadata_init(W2, PyStr("size"), PyStr("int"),
                                Chars("1024")),
                  1, Obj("Metadata", 1))
        W4 == PFN_addProfile(
                  Profile_init(PFN_init(W3, PyStr("http://site.com/f.a"),
                                        PyStr("site.com")),
                               PyStr("test"), PyStr("bar"), Chars("baz")),
                  1, <<Obj("Profile", 2)>>)
        W5 == CatalogType_addPFN(W4, 1, Obj("PFN", 1))
        W6 == File_init(W5, PyStr("f.d"), PyStr(Link_OUTPUT), True, True,
                        None)
        W7 == Executable_init(W6, PyStr("preprocess"), PyStr(Link_INPUT),
                              False, True, None, PyStr("diamond"),
                              PyStr("2.0"), NoPlatform)
        W8 == CatalogType_addProfile(W7, 3,
                  Tuple(<<PyStr("test"), PyStr("pre"), Chars("process")>>))
        W9 == CatalogType_addPFN(W8, 3,
                  Tuple(<<PyStr("http://www.google.com"), PyStr("google")>>))
        W10 == File_init(W9, PyStr("postdax.in"), None, False, False, None)
        W11 == File_init(W10, PyStr("postdax.out"), None, False, False, None)
        W12 == File_init(W11, PyStr("postdax.err"), None, False, False, None)
        W13 == Transformation_uses(
                   Transformation_uses(
                       Transformation_init(W12, PyStr("preprocess"),
                                           PyStr("diamond"), PyStr("2.0")),
                       1, 3, None, None, None, None),
                   1, 1, None, None, None, None)
        W14 == Job_init(W13, PyStr("preprocess"), None, PyStr("diamond"),
                        PyStr("2.0"), PyStr("foobar"))
    IN  DAX_init(W14, PyStr("post.xml"), None, PyStr("postdax"))

InitTest == Start(TestCatalog, <<>>)

\* the i-th profile key, notification event and notification command
ProfileKeys == <<"k1", "k2", "k3">>
Events == <<"at_end", "on_error", "start">>
Commands == <<"/bin/true", "/bin/false", "/bin/date">>

\* a call of the caller that returns W
Call(W) == Idle /\ Building /\ Commit(W) /\ ApiFrame

\* test() has no more to add to the graph
Finished == Idle /\ adags[1].dependencies # <<>>

NextTest ==
    \/ /\ nodes[1].arguments = <<>>
       /\ Call(AbstractJob_addArguments(World, 1,
                   <<Text(Chars("-i")), Obj("File", 1)>>))
    \/ /\ Len(nodes[1].profiles) < MaxPerList
       /\ Call(AbstractJob_addProfile(World, 1,
                   Tuple(<<PyStr("test"),
                           PyStr(ProfileKeys[Len(nodes[1].profiles) + 1]),
                           Chars("v")>>)))
    \/ nodes[1].stdin = 0 /\ Call(setStdin(World, 1, 4))
    \/ nodes[1].stdout = 0 /\ Call(setStdout(World, 1, 5))
    \/ nodes[1].stderr = 0 /\ Call(setStderr(World, 1, 6))
    \/ /\ Len(nodes[1].used_files) < MaxPerList
       /\ Call(AbstractJob_uses(World, 1, Len(nodes[1].used_files) + 1,
                                PyStr(Link_INPUT), None, None, None))
    \/ /\ Len(nodes[1].notifications) < MaxPerList
       /\ Call(invoke(World, 1,
                      PyStr(Events[Len(nodes[1].notifications) + 1]),
                      Chars(Commands[Len(nodes[1].notifications) + 1])))
    \/ /\ Building /\ Len(adags[1].files) < 2
       /\ AddFileCall(1, Len(adags[1].files) + 1)
    \/ /\ Building /\ Len(adags[1].files) = 2 /\ adags[1].executables = <<>>
       /\ Call(addExecutable(World, 1, 3))
    \/ /\ Building /\ adags[1].executables # <<>>
       /\ adags[1].transformations = <<>>
       /\ AddTransformationCall(1, 1)
    \/ /\ Building /\ adags[1].transformations # <<>>
       /\ adags[1].jobs = <<>>
       /\ AddJobCall(1, 1)
    \/ Building /\ Len(adags[1].jobs) = 1 /\ AddDAXCall(1, 2)
    \/ /\ Len(adags[1].jobs) = 2 /\ adags[1].dependencies = <<>>
       /\ Call(addDependency(World, 1, 1, 2, PyStr("foobar")))
    \/ \E g \in {1, result} \cap DOMAIN adags : WriteXMLCall(g)
    \/ Building /\ Finished /\ ParseStringCall(1)
    \/ StartElementCall
    \/ CharactersCall
    \/ EndElementCall
    \/ ParseReturn

SpecTest == InitTest /\ [][NextTest]_vars

\* the nesting depth of position i of a document (0 at the adag tag)
Depth(doc, i) ==
    Cardinality({j \in 1..(i - 1) : doc[j].ev = "start"})
    - Cardinality({j \in 1..(i - 1) : doc[j].ev = "end"})

\* what identifies an element among its siblings
Key(e) ==
    CASE e.name = "argument" -> ""
      [] e.name = "profile" -> e.attrs.key
      [] e.name = "invoke" -> e.attrs.when
      [] e.name = "child" -> e.attrs.ref
      [] e.name \in {"job", "dag", "dax"} -> e.attrs.id
      [] OTHER -> e.attrs.name

\* the positions of the elements directly under the adag element, and of
\* the elements directly under the element at position k
TopLevel(doc) ==
    SelectSeq([i \in DOMAIN doc |-> i],
              LAMBDA i : doc[i].ev = "start" /\ Depth(doc, i) = 1)
Inside(doc, k) ==
    SelectSeq([i \in DOMAIN doc |-> i],
              LAMBDA i : /\ doc[i].ev = "start" /\ Depth(doc, i) = 2
                         /\ k < i
                         /\ \A j \in (k + 1)..i : Depth(doc, j) >= 2)
Tags(doc, positions) ==
    [i \in DOMAIN positions |->
        <<doc[positions[i]].name, Key(doc[positions[i]])>>]

\* the elements a graph is to be written as, section by section, and the
\* elements of a node, group by group
GraphTags(g) ==
    LET a == adags[g]
    IN  [i \in DOMAIN a.files |-> <<"file", files[a.files[i]].name[2]>>]
        \o [i \in DOMAIN a.executables |->
               <<"executable", files[a.executables[i]].name[2]>>]
        \o [i \in DOMAIN a.transformations |->
               <<"transformation", xforms[a.transformations[i]].name[2]>>]
        \o [i \in DOMAIN a.jobs |->
               <<IF nodes[a.jobs[i]].cls = "Job" THEN "job"
                 ELSE IF nodes[a.jobs[i]].cls = "DAX" THEN "dax" ELSE "dag",
                 nodes[a.jobs[i]].id[2]>>]
        \o [i \in DOMAIN a.dependencies |->
               <<"child", nodes[deps[a.dependencies[i]].child].id[2]>>]
NodeTags(n) ==
    LET o == nodes[n]
    IN  (IF o.arguments = <<>> THEN <<>> ELSE << <<"argument", "">> >>)
        \o [i \in DOMAIN o.profiles |->
               <<"profile", profiles[o.profiles[i][2]].key[2]>>]
        \o (IF o.stdin = 0 THEN <<>>
            ELSE << <<"stdin", files[o.stdin].name[2]>> >>)
        \o (IF o.stdout = 0 THEN <<>>
            ELSE << <<"stdout", files[o.stdout].name[2]>> >>)
        \o (IF o.stderr = 0 THEN <<>>
            ELSE << <<"stderr", files[o.stderr].name[2]>> >>)
        \o [i \in DOMAIN o.used_files |->
               <<"uses", files[o.used_files[i].file].name[2]>>]
        \o [i \in DOMAIN o.notifications |->
               <<"invoke", o.notifications[i][1][2]>>]

\* C29: fixed emission order.  The elements directly under the adag
\* element of a written document are the graph's files, then its
\* executables, then its transformations, then its nodes, then its
\* dependencies, each list in list order; and the elements directly under
\* each node's element are its argument, then its profiles, then stdin,
\* stdout and stderr, then its uses, then its notifications, each list in
\* list order.
FixedEmissionOrder ==
    \A g \in DOMAIN out :
        Written(g) =>
            LET doc == out[g]
                top == TopLevel(doc)
                first == Len(adags[g].files) + Len(adags[g].executables)
                         + Len(adags[g].transformations)
            IN  /\ Tags(doc, top) = GraphTags(g)
                /\ \A i \in DOMAIN adags[g].jobs :
                       Tags(doc, Inside(doc, top[first + i]))
                           = NodeTags(adags[g].jobs[i])

\* the graph of test() written with every section and every group of the
\* job filled, two profiles, two uses and two notifications among them
FixedEmissionWitness ==
    /\ Building
    /\ Written(1)
    /\ Tags(out[1], TopLevel(out[1])) =
           << <<"file", "f.a">>, <<"file", "f.d">>,
              <<"executable", "preprocess">>,
              <<"transformation", "preprocess">>,
              <<"job", "ID0000001">>, <<"dax", "ID0000002">>,
              <<"child", "ID0000002">> >>
    /\ Tags(out[1], Inside(out[1], TopLevel(out[1])[5])) =
           << <<"argument", "">>, <<"profile", "k1">>, <<"profile", "k2">>,
              <<"stdin", "postdax.in">>, <<"stdout", "postdax.out">>,
              <<"stderr", "postdax.err">>, <<"uses", "f.a">>,
              <<"uses", "f.d">>, <<"invoke", "at_end">>,
              <<"invoke", "on_error">> >>

\* s is a prefix of t
IsPrefix(s, t) == Len(s) <= Len(t) /\ SubSeq(t, 1, Len(s)) = s

\* C30: append-only structure.  Every call of the caller and every event
\* of the decoder leaves each list of each existing object a prefix of its
\* new value: the graph's nodes, files, executables, transformations and
\* dependency records, a node's arguments, profiles, uses and
\* notifications, a catalog entry's profiles, metadata and locations, a
\* location's profiles, a transformation's uses and a dependency's parents.
\* No object goes away.
AppendOnly ==
    [][/\ \A g \in DOMAIN adags :
              /\ g \in DOMAIN adags'
              /\ IsPrefix(adags[g].jobs, adags'[g].jobs)
              /\ IsPrefix(adags[g].files, adags'[g].files)
              /\ IsPrefix(adags[g].executables, adags'[g].executables)
              /\ IsPrefix(adags[g].transformations,
                          adags'[g].transformations)
              /\ IsPrefix(adags[g].dependencies, adags'[g].dependencies)
       /\ \A n \in DOMAIN nodes :
              /\ n \in DOMAIN nodes'
              /\ IsPrefix(nodes[n].arguments, nodes'[n].arguments)
              /\ IsPrefix(nodes[n].profiles, nodes'[n].profiles)
              /\ IsPrefix(nodes[n].used_files, nodes'[n].used_files)
              /\ IsPrefix(nodes[n].notifications, nodes'[n].notifications)
       /\ \A f \in DOMAIN files :
              /\ f \in DOMAIN files'
              /\ IsPrefix(files[f].profiles, files'[f].profiles)
              /\ IsPrefix(files[f].metadata, files'[f].metadata)
              /\ IsPrefix(files[f].pfns, files'[f].pfns)
       /\ \A l \in DOMAIN pfns :
              l \in DOMAIN pfns'
              /\ IsPrefix(pfns[l].profiles, pfns'[l].profiles)
       /\ \A t \in DOMAIN xforms :
              t \in DOMAIN xforms'
              /\ IsPrefix(xforms[t].used_files, xforms'[t].used_files)
       /\ \A d \in DOMAIN deps :
              d \in DOMAIN deps'
              /\ IsPrefix(deps[d].parents, deps'[d].parents)]_vars

\* the caller has filled the lists of the job and of the graph call by
\* call, and the decoder those of a second graph event by event
AppendOnlyWitness ==
    /\ result # 0
    /\ \A g \in {1, result} :
           /\ Len(adags[g].files) = 2 /\ Len(adags[g].jobs) = 2
           /\ Len(adags[g].dependencies) = 1
           /\ LET o == nodes[adags[g].jobs[1]]
              IN  /\ Len(o.arguments) = 2 /\ Len(o.profiles) = 2
                  /\ Len(o.used_files) = 2 /\ Len(o.notifications) = 2
           /\ LET a == files[adags[g].files[1]]
              IN  /\ Len(a.profiles) = 1 /\ Len(a.metadata) = 1
                  /\ Len(a.pfns) = 1
                  /\ Len(pfns[a.pfns[1][2]].profiles) = 1

-----------------------------------------------------------------------------
(* Properties of the decoder's tables and pointers *)

\* C31: dependency closure after decode.  In every graph a parse has
\* returned, the child and every parent of every dependency record are
\* nodes of the graph's node list.
DependencyClosure ==
    result # 0 =>
        \A i \in DOMAIN adags[result].dependencies :
            LET d == deps[adags[result].dependencies[i]]
            IN  /\ d.child \in Held(result)
                /\ \A j \in DOMAIN d.parents :
                       d.parents[j][1] \in Held(result)

\* C32: decoded node registration.  While a document is decoded, the
\* id-to-node table maps the id of every node of the graph - the id
\* attribute, or the id the graph allocated when the element has none - to
\* that node, so that a ref equal to the id resolves to the node.
NodeRegistration ==
    (handler.adag # 0 /\ err = NoErr) =>
        \A n \in Held(handler.adag) :
            /\ nodes[n].id \in DOMAIN handler.jobmap
            /\ handler.jobmap[nodes[n].id] = n

\* the pointer that belongs to an element of kind name is unset in h
Cleared(h, name) ==
    CASE name = "profile" -> h.lastProfile = 0
      [] name = "metadata" -> h.lastMetadata = 0
      [] name = "pfn" -> h.lastPFN = 0
      [] name = "transformation" -> h.lastTransformation = 0
      [] name = "child" -> h.lastChild = 0
      [] name = "argument" -> h.lastArgument = None
      [] name = "invoke" -> h.lastInvoke = None
      [] name \in {"job", "dag", "dax"} -> h.lastJob = 0
      [] OTHER -> TRUE

\* C33: context stack discipline.  Every event of the decoder leaves the
\* stack listing the open elements, innermost first: a start tag pushes
\* its element, an end tag pops the element it closes, character content
\* leaves the stack alone; the end tag of profile, metadata, pfn,
\* transformation, child, argument, invoke, job, dag or dax, when it
\* returns, has unset the pointer of that kind; and after the last event
\* of the document the stack is empty and all those pointers are unset.
ContextStackDiscipline ==
    [][Parsing =>
          LET e == Head(input)
          IN  /\ e.ev = "start" =>
                     handler'.elements = <<e.name>> \o handler.elements
              /\ e.ev = "chars" => handler'.elements = handler.elements
              /\ e.ev = "end" =>
                     /\ handler.elements # <<>>
                     /\ Head(handler.elements) = e.name
                     /\ handler'.elements = Tail(handler.elements)
                     /\ err' = NoErr => Cleared(handler', e.name)
              /\ input' = <<>> =>
                     /\ handler'.elements = <<>>
                     /\ \A name \in KnownElements : Cleared(handler', name)]_vars

\* the document of test() has been delivered to its last event: the graph
\* is decoded, the stack is empty and the pointers are unset
ContextStackWitness ==
    /\ Building
    /\ input = <<>>
    /\ handler.adag = 2
    /\ Len(adags[2].jobs) = 2 /\ Len(adags[2].dependencies) = 1
    /\ nodes[adags[2].jobs[1]].arguments # <<>>
    /\ Len(nodes[adags[2].jobs[1]].notifications) = 2
    /\ handler.elements = <<>>
    /\ \A name \in KnownElements : Cleared(handler, name)

-----------------------------------------------------------------------------
(* SpecArg: the decoder on argument elements.  Each document holds a job  *)
(* whose argument element has up to MaxArgItems items - runs of character *)
(* content, one of them with an unbalanced quote, and nested file         *)
(* elements - after a declaration of one of the files or none; further    *)
(* documents place a file element under each parent.  The caller writes   *)
(* the graph a parse returns.                                             *)

MaxArgItems == 2

\* the character content of an argument: a token, two tokens, a quoted
\* token with a space, and a quote that is not closed
ArgTexts == {"-a", "-a b ", "'x y'", "'x"}

ArgItems ==
    {<<CharsEv(Chars(t))>> : t \in ArgTexts}
    \cup {Element("file", "name" :> n, <<>>) : n \in {"f.a", "f.b"}}

ArgDocs ==
    {AdagDoc(prior
             \o Element("job", ("id" :> "ID0000001") @@ ("name" :> "n"),
                        Element("argument", EmptyDict, Flatten(items)))) :
         prior \in {<<>>, Element("file", ("name" :> "f.a")
                                          @@ ("link" :> Link_INPUT), <<>>)},
         items \in UNION {[1..k -> ArgItems] : k \in 0..MaxArgItems}}
    \cup {AdagDoc(Under(parent, Element("file", "name" :> "f.b", <<>>))) :
              parent \in Parents}

InitArg == \E doc \in ArgDocs : Start(Empty, doc)

SpecArg == InitArg /\ [][NextErr]_vars

\* an argument element is open
InArgument ==
    \E i \in DOMAIN handler.elements : handler.elements[i] = "argument"

\* the buffer of the open argument element, and the tokens of a run of
\* character content as items of the buffer
Buffer(h) == h.lastArgument[2]
Tokens(text) ==
    [i \in DOMAIN shlex_split(text).tokens |->
        Text(shlex_split(text).tokens[i])]

\* C34: argument commit.  The start tag of an argument element opens an
\* empty buffer; while the element is open no event changes a node's
\* argument list, character content appends its tokens to the buffer and a
\* nested file element its file, in document order; the end tag appends
\* the buffered items to the current node's argument list in one step and
\* clears the buffer.
ArgumentCommit ==
    [][(Parsing /\ err' = NoErr) =>
          LET e == Head(input)
          IN  /\ (e.ev = "start" /\ e.name = "argument") =>
                     /\ handler'.lastArgument = List(<<>>)
                     /\ nodes' = nodes
              /\ (InArgument /\ ~(e.ev = "end" /\ e.name = "argument")) =>
                     /\ nodes' = nodes
                     /\ (e.ev = "chars" /\ Enclosing = "argument") =>
                            Buffer(handler') =
                                Buffer(handler) \o Tokens(e.text)
                     /\ (e.ev = "start" /\ e.name = "file"
                         /\ Enclosing = "argument") =>
                            Buffer(handler') =
                                Append(Buffer(handler),
                                       Obj("File", handler'.lastFile))
                     /\ e.ev = "end" => handler'.lastArgument
                                            = handler.lastArgument
              /\ (e.ev = "end" /\ e.name = "argument") =>
                     /\ nodes'[handler.lastJob].arguments =
                            nodes[handler.lastJob].arguments
                            \o Buffer(handler)
                     /\ handler'.lastArgument = None]_vars

\* the argument <argument>'x y'<file name="f.a"/></argument> has been
\* closed: the job has the token and the file, in that order, and the
\* buffer is cleared
ArgumentCommitWitness ==
    /\ Parsing
    /\ ~InArgument
    /\ handler.lastJob = 1
    /\ handler.lastArgument = None
    /\ nodes[1].arguments =
           <<Text(Chars("x y")), Obj("File", handler.lastFile)>>

\* C35: file reference inside an argument.  A file element under argument
\* takes its entity from the name table, or constructs a File and registers
\* it when the name is not there, as a file element under the graph
\* element does; under argument the entity is appended to the buffer and
\* the graph's catalogs stay as they were, under the graph element it is
\* appended to the graph's files; under any other parent the callback
\* raises.
FileInArgument ==
    [][(AtStart /\ Head(input).name = "file") =>
          LET attrs == Head(input).attrs
              name  == Get(attrs, "name")
              known == name \in DOMAIN handler.filemap
              f     == IF known THEN handler.filemap[name]
                       ELSE Len(files) + 1
              g     == handler.adag
          IN  IF Enclosing \in {"adag", "argument"}
              THEN /\ err' = NoErr
                   /\ IF known
                      THEN files' = files
                           /\ handler'.filemap = handler.filemap
                      ELSE /\ Len(files') = Len(files) + 1
                           /\ files'[f].cls = "File"
                           /\ files'[f].name = name
                           /\ files'[f].link = Get(attrs, "link")
                           /\ handler'.filemap =
                                  DictPut(handler.filemap, name, f)
                   /\ IF Enclosing = "argument"
                      THEN /\ Buffer(handler') =
                                  Append(Buffer(handler), Obj("File", f))
                           /\ adags' = adags
                      ELSE adags'[g].files = Append(adags[g].files, f)
              ELSE err' # NoErr]_vars

\* a file element under argument names the file the document declared
\* before: its delivery puts that entity in the buffer and leaves the
\* graph's catalog with the one declaration
FileInArgumentWitness ==
    /\ AtStart /\ Head(input).name = "file" /\ Enclosing = "argument"
    /\ Get(Head(input).attrs, "name") \in DOMAIN handler.filemap
    /\ adags[handler.adag].files = <<1>>
    /\ LET W == startElement(World, "file", Head(input).attrs)
       IN  /\ ~Failed(W)
           /\ W.handler.lastArgument[2] =
                  Append(Buffer(handler), Obj("File", 1))
           /\ W.adags = adags /\ W.files = files

\* a text with a quote that is not closed (the documents quote with '
\* only, and escape nothing)
Unbalanced(text) ==
    Cardinality({i \in DOMAIN text : text[i] = "'"}) % 2 = 1

\* character content of an argument element with an unbalanced quote
Malformed ==
    /\ input # <<>>
    /\ Head(input).ev = "chars"
    /\ Enclosing = "argument"
    /\ Unbalanced(Head(input).text)

\* C36: malformed argument.  When the character content of an argument
\* element has an unbalanced quote, its delivery raises, no node's argument
\* list changes then or later, and the parse returns no graph.
MalformedArgument ==
    [][Malformed =>
          /\ err' # NoErr
          /\ nodes' = nodes
          /\ result' = 0
          /\ ~(ENABLED NextErr)']_vars

\* the parse has stopped at an unbalanced quote that follows a file in the
\* argument: the file is in the buffer, the job has no argument, and no
\* graph is returned
MalformedArgumentWitness ==
    /\ Malformed
    /\ err = "ValueError"
    /\ Buffer(handler) = <<Obj("File", handler.lastFile)>>
    /\ nodes[handler.lastJob].arguments = <<>>
    /\ result = 0

-----------------------------------------------------------------------------
(* SpecXform: the Transformation constructor.  An Executable stands       *)
(* constructed, with or without namespace and version; the caller         *)
(* constructs up to MaxXforms Transformations, from the Executable or     *)
(* from a plain name, passing no, an empty or a non-empty namespace and   *)
(* version.                                                               *)

MaxXforms == 2

\* what the caller passes as name, as namespace and as version
XformNames == {Obj("Executable", 1), PyStr("t")}
XformNamespaces == {None, PyStr(""), PyStr("other")}
XformVersions == {None, PyStr(""), PyStr("1.0")}

InitXform ==
    \E namespace \in {None, PyStr("diamond")}, version \in {None, PyStr("2.0")} :
        Start(Executable_init(Empty, PyStr("preprocess"), PyStr(Link_INPUT),
                              False, True, None, namespace, version,
                              NoPlatform), <<>>)

NewTransformationFrom(name, namespace, version) ==
    /\ Idle
    /\ Len(xforms) < MaxXforms
    /\ Commit(Transformation_init(World, name, namespace, version))
    /\ ApiFrame

NextXform ==
    \E name \in XformNames, namespace \in XformNamespaces,
       version \in XformVersions :
        NewTransformationFrom(name, namespace, version)

SpecXform == InitXform /\ [][NextXform]_vars

\* the Transformation a constructor call has returned in W
Constructed(W) == W.xforms[Len(W.xforms)]

\* C37: Transformation from an Executable.  In every state, for every
\* namespace and version the caller can pass, Transformation(exe,
\* namespace, version) returns one new Transformation with exe's name, with
\* the passed namespace and version where they are not empty and exe's
\* otherwise, and with exactly one Use, of exe, with link=input,
\* register=false, transfer=true and no optional; Transformation(name,
\* namespace, version) for a plain name returns one with that name and no
\* Use.  The Transformations that exist are left as they were.
TransformationFromExecutable ==
    \A namespace \in XformNamespaces, version \in XformVersions :
        LET W == Transformation_init(World, Obj("Executable", 1), namespace,
                                     version)
            V == Transformation_init(World, PyStr("t"), namespace, version)
            given(v, default) == IF v \in {None, PyStr("")} THEN default ELSE v
        IN  /\ ~Failed(W) /\ ~Failed(V)
            /\ SubSeq(W.xforms, 1, Len(xforms)) = xforms
            /\ Len(W.xforms) = Len(xforms) + 1
            /\ Constructed(W).name = files[1].name
            /\ Constructed(W).namespace = given(namespace, files[1].namespace)
            /\ Constructed(W).version = given(version, files[1].version)
            /\ Constructed(W).used_files =
                   <<[file |-> 1, link |-> PyStr("input"),
                      register |-> False, transfer |-> True,
                      optional |-> None]>>
            /\ W.files = files
            /\ Len(V.xforms) = Len(xforms) + 1
            /\ Constructed(V).name = PyStr("t")
            /\ Constructed(V).namespace = given(namespace, None)
            /\ Constructed(V).version = given(version, None)
            /\ Constructed(V).used_files = <<>>

\* the caller has constructed Transformation(exe, namespace="other") from
\* an Executable of version 2.0, and then Transformation("t")
TransformationWitness ==
    /\ Len(xforms) = 2
    /\ files[1].namespace = PyStr("diamond")
    /\ xforms[1] = [name |-> PyStr("preprocess"),
                    namespace |-> PyStr("other"), version |-> PyStr("2.0"),
                    used_files |-> <<Use_init(1, PyStr(Link_INPUT), False,
                                              True, None)>>]
    /\ xforms[2].name = PyStr("t") /\ xforms[2].used_files = <<>>

-----------------------------------------------------------------------------
(* The graph header across encode and decode (SpecRT).                     *)

\* a count or index as a value: the number it denotes, whether the graph
\* holds it as an integer or as the text of an attribute
HeaderValue(v) == IF IsInt(v) THEN PyStr(ToString(v[2])) ELSE v

\* C38: Graph header round trip.  Whenever a decode of the document written
\* for graph 1 has returned a graph, that graph has graph 1's name, a count
\* and an index of the same value as graph 1's (index 0 included), and an
\* unset count or index where graph 1's is unset.
HeaderRoundTrip ==
    result # 0 =>
        /\ adags[result].name = adags[1].name
        /\ HeaderValue(adags[result].count) = HeaderValue(adags[1].count)
        /\ HeaderValue(adags[result].index) = HeaderValue(adags[1].index)

=============================================================================
